---- MODULE Spec2Model ----
(***************************************************************************)
(* A model of the duplicate-detection core of the lightning local backend: *)
(*   - the key codec (EncodeKeySuffix / DecodeKeySuffix),                  *)
(*   - the duplicate iterator over the main DB,                            *)
(*   - the DuplicateManager (DuplicateTable / sendRequestToTiKV).          *)
(* Each part has its own specification over the shared variables; the     *)
(* variables of the other parts stay at their idle values.                 *)
(***************************************************************************)
EXTENDS Integers, Sequences, FiniteSets, TLC

(***************************************************************************)
(* Bounds of the model.                                                    *)
(***************************************************************************)
\* longest user key given to the codec round trip
MaxKeyLen == 9
\* longest common prefix of the two keys given to the order check
MaxFill == 8
\* longest tail that follows the common prefix in the order check
MaxTail == 1

\* byte values user keys are built from: the padding byte, the marker byte
ByteVals == {0, 255}

\* byte values of the keys of the order check
OrdByteVals == {0, 1, 255}

(***************************************************************************)
(* Go slices: a backing array (its length is the capacity) and a length.   *)
(* A run-time panic (slice bounds out of range) is the panic flag.         *)
(***************************************************************************)
NilSlice == [arr |-> <<>>, len |-> 0, panic |-> FALSE]

PanicSlice == [arr |-> <<>>, len |-> 0, panic |-> TRUE]

Cap(s) == Len(s.arr)

\* the bytes a slice shows: arr[0:len]
Bytes(s) == SubSeq(s.arr, 1, s.len)

\* make([]byte, n, c): zeroed
MakeSlice(n, c) == [arr |-> [i \in 1..c |-> 0], len |-> n, panic |-> FALSE]

\* s[:n]: legal up to the capacity, shows whatever the backing array holds
Reslice(s, n) ==
  IF s.panic \/ n > Cap(s) THEN PanicSlice ELSE [s EXCEPT !.len = n]

\* copy(dst, src) for Len(src) <= len(dst): overwrites the head of dst
CopyInto(dst, src) ==
  [dst EXCEPT !.arr = [i \in 1..Cap(dst) |-> IF i <= Len(src) THEN src[i] ELSE dst.arr[i]]]

\* append(s, bs...): in place when the capacity allows, else a new array
AppendBytes(s, bs) ==
  IF s.panic THEN PanicSlice
  ELSE IF s.len + Len(bs) <= Cap(s)
  THEN [arr |-> [i \in 1..Cap(s) |->
                   IF i > s.len /\ i <= s.len + Len(bs) THEN bs[i - s.len] ELSE s.arr[i]],
        len |-> s.len + Len(bs), panic |-> FALSE]
  ELSE [arr |-> Bytes(s) \o bs, len |-> s.len + Len(bs), panic |-> FALSE]

\* bytes.Compare(a, b) < 0
RECURSIVE BytesLess(_, _)
BytesLess(a, b) ==
  IF b = <<>> THEN FALSE
  ELSE IF a = <<>> THEN TRUE
  ELSE IF a[1] # b[1] THEN a[1] < b[1]
  ELSE BytesLess(Tail(a), Tail(b))

(***************************************************************************)
(* 64-bit integers.  An int64 is four 16-bit limbs, most significant       *)
(* first, the first limb signed (-32768..32767); a uint64 has all four     *)
(* limbs in 0..65535.                                                      *)
(***************************************************************************)
LimbBase == 256 * 256

\* uint64(x) of an int64: the same bits
Uint64(x) == <<x[1] % LimbBase, x[2], x[3], x[4]>>

\* int64(u) of a uint64: the same bits
Int64(u) == <<IF u[1] >= (LimbBase \div 2) THEN u[1] - LimbBase ELSE u[1], u[2], u[3], u[4]>>

\* unsigned order of two uint64
U64Less(u, v) ==
  \E i \in 1..4 : u[i] < v[i] /\ \A j \in 1..(i - 1) : u[j] = v[j]

\* signed order of two int64
I64Less(x, y) ==
  \E i \in 1..4 : x[i] < y[i] /\ \A j \in 1..(i - 1) : x[j] = y[j]

\* the 8 bytes binary.BigEndian.PutUint64 writes
BigEndianBytes(u) ==
  [i \in 1..8 |-> IF (i % 2) = 1 THEN (u[(i + 1) \div 2]) \div 256 ELSE (u[i \div 2]) % 256]

\* binary.BigEndian.PutUint64(s[at:at+8], u)
PutUint64(s, at, u) ==
  IF s.panic \/ at + 8 > s.len THEN PanicSlice
  ELSE [s EXCEPT !.arr = [i \in 1..Cap(s) |->
          IF i > at /\ i <= at + 8 THEN BigEndianBytes(u)[i - at] ELSE s.arr[i]]]

\* binary.BigEndian.Uint64(b) of 8 bytes
BigEndianUint64(b) == [i \in 1..4 |-> (b[(2 * i) - 1] * 256) + b[2 * i]]

(***************************************************************************)
(* codec.EncodeBytes / codec.DecodeBytes: the memcomparable encoding in    *)
(* groups of 8 bytes, each followed by a marker 0xFF - padCount.           *)
(***************************************************************************)
encGroupSize == 8

encMarker == 255

encPad == 0

\* codec.EncodedBytesLength(dataLen)
EncodedBytesLength(dataLen) ==
  dataLen + (encGroupSize - (dataLen % encGroupSize)) + 1 + (dataLen \div encGroupSize)

\* reallocBytes(b, n): room for n more bytes
reallocBytes(b, n) ==
  IF b.panic THEN PanicSlice
  ELSE IF Cap(b) < b.len + n
  THEN CopyInto(MakeSlice(b.len, b.len + n), Bytes(b))
  ELSE b

\* the loop of EncodeBytes from offset idx on
RECURSIVE EncodeGroups(_, _, _)
EncodeGroups(result, data, idx) ==
  IF idx > Len(data) THEN result
  ELSE LET remain   == Len(data) - idx
           padCount == IF remain >= encGroupSize THEN 0 ELSE encGroupSize - remain
           group    == IF remain >= encGroupSize
                       THEN SubSeq(data, idx + 1, idx + encGroupSize)
                       ELSE SubSeq(data, idx + 1, Len(data)) \o [i \in 1..padCount |-> encPad]
       IN  EncodeGroups(AppendBytes(AppendBytes(result, group), <<encMarker - padCount>>),
                        data, idx + encGroupSize)

EncodeBytes(b, data) ==
  EncodeGroups(reallocBytes(b, ((Len(data) \div encGroupSize) + 1) * (encGroupSize + 1)), data, 0)

\* the loop of DecodeBytes: b is what is left to read, buf what was decoded
RECURSIVE DecodeGroups(_, _)
DecodeGroups(b, buf) ==
  IF Len(b) < encGroupSize + 1
  THEN [rest |-> <<>>, key |-> <<>>, err |-> "insufficient bytes to decode value"]
  ELSE LET group    == SubSeq(b, 1, encGroupSize)
           marker   == b[encGroupSize + 1]
           padCount == encMarker - marker
           real     == encGroupSize - padCount
           rest     == SubSeq(b, encGroupSize + 2, Len(b))
       IN  IF padCount > encGroupSize
           THEN [rest |-> <<>>, key |-> <<>>, err |-> "invalid marker byte"]
           ELSE IF padCount = 0
           THEN DecodeGroups(rest, AppendBytes(buf, group))
           ELSE IF \E i \in (real + 1)..encGroupSize : group[i] # encPad
           THEN [rest |-> <<>>, key |-> <<>>, err |-> "invalid padding byte"]
           ELSE [rest |-> rest, key |-> Bytes(AppendBytes(buf, SubSeq(group, 1, real))),
                 err |-> "nil"]

\* codec.DecodeBytes(b, buf): a nil buf is made with capacity len(b)
DecodeBytes(b, buf) ==
  DecodeGroups(b, Reslice(IF Cap(buf) = 0 THEN MakeSlice(0, Len(b)) ELSE buf, 0))

(***************************************************************************)
(* The key codec of the local backend.                                     *)
(***************************************************************************)
minEncodedKeyLen == EncodedBytesLength(0) + 16

EncodedKeyBytesLength(key) == EncodedBytesLength(Len(key)) + 16

\* mutant: the buffer is not truncated before the key is encoded into it
EncodeKeySuffix_NoReset(buf, key, rowID, offset) ==
  LET b1 == EncodeBytes(buf, key)
      b2 == reallocBytes(b1, 16)
      n  == b2.len
      b3 == Reslice(b2, n + 16)
      b4 == PutUint64(b3, n, Uint64(rowID))
  IN  PutUint64(b4, n + 8, Uint64(offset))

\* binary.LittleEndian.PutUint64(s[at:at+8], u)
PutUint64LE(s, at, u) ==
  IF s.panic \/ at + 8 > s.len THEN PanicSlice
  ELSE [s EXCEPT !.arr = [i \in 1..Cap(s) |->
          IF i > at /\ i <= at + 8 THEN BigEndianBytes(u)[9 - (i - at)] ELSE s.arr[i]]]

\* mutant: the suffix is written in little-endian byte order
EncodeKeySuffix_LittleEndian(buf, key, rowID, offset) ==
  LET b1 == EncodeBytes(Reslice(buf, 0), key)
      b2 == reallocBytes(b1, 16)
      n  == b2.len
      b3 == Reslice(b2, n + 16)
      b4 == PutUint64LE(b3, n, Uint64(rowID))
  IN  PutUint64LE(b4, n + 8, Uint64(offset))

EncodeKeySuffix(buf, key, rowID, offset) ==
  LET b1 == EncodeBytes(Reslice(buf, 0), key)
      b2 == reallocBytes(b1, 16)
      n  == b2.len
      b3 == Reslice(b2, n + 16)
      b4 == PutUint64(b3, n, Uint64(rowID))
  IN  PutUint64(b4, n + 8, Uint64(offset))

DecodeKeySuffix(buf, data) ==
  IF Len(data) < minEncodedKeyLen
  THEN [key |-> <<>>, rowID |-> <<0, 0, 0, 0>>, offset |-> <<0, 0, 0, 0>>,
        err |-> "failed to decode key suffix, encoded key is too short"]
  ELSE LET d == DecodeBytes(SubSeq(data, 1, Len(data) - 16), buf)
       IN  IF d.err # "nil"
           THEN [key |-> <<>>, rowID |-> <<0, 0, 0, 0>>, offset |-> <<0, 0, 0, 0>>,
                 err |-> d.err]
           ELSE [key    |-> d.key,
                 rowID  |-> Int64(BigEndianUint64(SubSeq(data, Len(data) - 15, Len(data) - 8))),
                 offset |-> Int64(BigEndianUint64(SubSeq(data, Len(data) - 7, Len(data)))),
                 err    |-> "nil"]

(***************************************************************************)
(* Ordered stores (pebble): maps from key bytes to value bytes, walked in  *)
(* bytewise key order.                                                     *)
(***************************************************************************)
\* Batch.Set(k, v) and Commit: the last value written under a key stays
DBSet(d, k, v) == {e \in d : e.key # k} \cup {[key |-> k, val |-> v]}

\* the entry with the smallest key
MinEntry(d) == CHOOSE e \in d : \A f \in d \ {e} : BytesLess(e.key, f.key)

\* the entries in key order: what an iterator over the store walks
RECURSIVE SortedEntries(_)
SortedEntries(d) ==
  IF d = {} THEN <<>> ELSE <<MinEntry(d)>> \o SortedEntries(d \ {MinEntry(d)})

(***************************************************************************)
(* Duplicate manager: requests, regions, streams.                          *)
(* A nil pointer, a nil interface is the value with nil = TRUE; using it   *)
(* is a run-time panic, which ends the process.                            *)
(***************************************************************************)
NilIndexInfo == [nil |-> TRUE, ID |-> 0, State |-> "none"]

NilReq ==
  [nil |-> TRUE, tableID |-> 0, indexID |-> 0, start |-> <<>>, end |-> <<>>,
   indexInfo |-> NilIndexInfo]

NilRegion == [nil |-> TRUE, id |-> 0, start |-> <<>>, end |-> <<>>, ver |-> 0]

NilClient == [nil |-> TRUE, region |-> NilRegion, start |-> <<>>, end |-> <<>>, sent |-> 0]

\* make([]T, n): a slice of n zero values
MakeZeroed(n, zero) == [i \in 1..n |-> zero]

\* distsql.TableRangesToKVRanges(tableID, ranger.FullIntRange(false), nil)
TableRangesToKVRanges(tableID) ==
  << [StartKey |-> <<tableID, 114>>, EndKey |-> <<tableID, 115>>] >>

\* distsql.IndexRangesToKVRanges(nil, tableID, indexID, ranger.FullRange(), nil)
IndexRangesToKVRanges(tableID, indexID) ==
  << [StartKey |-> <<tableID, 105, indexID>>, EndKey |-> <<tableID, 105, indexID + 1>>] >>

buildTableRequest(tableID) ==
  MakeZeroed(1, NilReq) \o
    [i \in 1..Len(TableRangesToKVRanges(tableID)) |->
       [nil |-> FALSE, tableID |-> tableID, indexID |-> 0,
        start |-> TableRangesToKVRanges(tableID)[i].StartKey,
        end |-> TableRangesToKVRanges(tableID)[i].EndKey,
        indexInfo |-> NilIndexInfo]]

buildIndexRequest(tableID, indexInfo) ==
  MakeZeroed(1, NilReq) \o
    [i \in 1..Len(IndexRangesToKVRanges(tableID, indexInfo.ID)) |->
       [nil |-> FALSE, tableID |-> tableID, indexID |-> indexInfo.ID,
        start |-> IndexRangesToKVRanges(tableID, indexInfo.ID)[i].StartKey,
        end |-> IndexRangesToKVRanges(tableID, indexInfo.ID)[i].EndKey,
        indexInfo |-> indexInfo]]

RECURSIVE IndexRequestsFrom_NoFilter(_, _)
\* mutant: the state of the index is not looked at
IndexRequestsFrom_NoFilter(tableInfo, i) ==
  IF i > Len(tableInfo.Indices) THEN <<>>
  ELSE buildIndexRequest(tableInfo.ID, tableInfo.Indices[i])
       \o IndexRequestsFrom_NoFilter(tableInfo, i + 1)

\* the loop of buildDuplicateRequests over tableInfo.Indices from index i on
RECURSIVE IndexRequestsFrom(_, _)
IndexRequestsFrom(tableInfo, i) ==
  IF i > Len(tableInfo.Indices) THEN <<>>
  ELSE IF tableInfo.Indices[i].State # "public" THEN IndexRequestsFrom(tableInfo, i + 1)
  ELSE buildIndexRequest(tableInfo.ID, tableInfo.Indices[i]) \o IndexRequestsFrom(tableInfo, i + 1)

buildDuplicateRequests(tableInfo) ==
  buildTableRequest(tableInfo.ID) \o IndexRequestsFrom(tableInfo, 1)

\* the tables DuplicateTable is called with
TableInfos ==
  { [ID |-> 1, Indices |-> <<>>],
    [ID |-> 1, Indices |-> <<[nil |-> FALSE, ID |-> 1, State |-> "public"]>>],
    [ID |-> 1, Indices |-> <<[nil |-> FALSE, ID |-> 1, State |-> "write only"]>>],
    [ID |-> 1, Indices |-> <<[nil |-> FALSE, ID |-> 2, State |-> "delete only"],
                             [nil |-> FALSE, ID |-> 1, State |-> "public"]>>] }

(***************************************************************************)
(* The remote cluster: the region map before and after a split (topo 1,    *)
(* topo 2), the duplicate pairs it streams and the rows it serves.         *)
(***************************************************************************)
\* the key the one region splits at: inside the row range of table 1
SplitKey == <<1, 114, 128>>

RegionsOf(t) ==
  IF t = 1
  THEN << [nil |-> FALSE, id |-> 1, start |-> <<>>, end |-> <<>>, ver |-> 1] >>
  ELSE << [nil |-> FALSE, id |-> 1, start |-> <<>>,
           end |-> Bytes(EncodeBytes(NilSlice, SplitKey)), ver |-> 2],
          [nil |-> FALSE, id |-> 2, start |-> Bytes(EncodeBytes(NilSlice, SplitKey)),
           end |-> <<>>, ver |-> 2] >>

\* the regions of a list that overlap [startKey, endKey), in order
RECURSIVE Overlapping(_, _, _)
Overlapping(rs, startKey, endKey) ==
  IF rs = <<>> THEN <<>>
  ELSE LET r   == Head(rs)
           hit == /\ (endKey = <<>> \/ BytesLess(r.start, endKey))
                  /\ (r.end = <<>> \/ BytesLess(startKey, r.end))
       IN  (IF hit THEN <<r>> ELSE <<>>) \o Overlapping(Tail(rs), startKey, endKey)

\* ScanRegions(start, end, limit) on the region map t: a contiguous cover
ScanRegions(t, startKey, endKey) == Overlapping(RegionsOf(t), startKey, endKey)

\* duplicate pairs the cluster holds: two rows of table 1, one on each side of
\* the split key, and an entry of index 1 that points at row 5
RemotePairs ==
  { [key |-> <<1, 114, 5>>, val |-> <<50>>],
    [key |-> <<1, 114, 200>>, val |-> <<51>>],
    [key |-> <<1, 105, 1, 5>>, val |-> <<52>>] }

\* the pairs a stream over [start, end) of a region yields, in key order
StreamPairs(region, start, end) ==
  SortedEntries({p \in RemotePairs :
                   /\ ~BytesLess(p.key, start)
                   /\ BytesLess(p.key, end)
                   /\ ~BytesLess(Bytes(EncodeBytes(NilSlice, p.key)), region.start)
                   /\ (region.end = <<>>
                        \/ BytesLess(Bytes(EncodeBytes(NilSlice, p.key)), region.end))})

\* Encoder.DecodeHandleFromIndex then EncodeHandleKey: the row key an index
\* entry points at
HandleKeyOfIndex(key) == <<key[1], 114, key[Len(key)]>>

\* KvBatchGet: the rows stored under the keys asked for
RowsOf(keys) ==
  {p \in RemotePairs : \E i \in 1..Len(keys) : keys[i] = p.key}

(***************************************************************************)
(* State.                                                                  *)
(***************************************************************************)
VARIABLES
  \* codec harness: the inputs, the buffer handed in, the results
  cPhase, cA, cB, cBuf, cEncA, cEncB, cDec,
  \* local engine: the pairs loaded, the main DB, the duplicates DB
  pairs, db, dupDB,
  \* duplicate iterator: its snapshot of the main DB, the position of the
  \* underlying iterator (0: none), the visible entry, the error
  itPhase, itSnap, itPos, curKey, curRawKey, curVal, itErr,
  \* what the caller saw: the last call and its result, whether the calls
  \* since the last First() were all Next(), the keys Key() returned since
  itOp, itRet, itFwd, itTrav,
  \* duplicate manager: the table and the manager's regionConcurrency; the
  \* cluster (region map, remote calls that may still fail, whether every
  \* stream answers with a region error); the caller's context and the
  \* context DuplicateTable derives from it
  tableInfo, regionConcurrency, topo, faults, alwaysRegionError,
  ctxCancelled, rpcCancelled,
  \* DuplicateTable: its position, the requests built, what it returned, the
  \* OnceError, the WaitGroup counter, one record per goroutine spawned,
  \* whether a goroutine panicked (the process is gone)
  dtPc, reqs, dtRet, tableErr, wg, wk, crashed,
  \* calls of storeDuplicateData, of GetValues and of getValuesFromRegion
  \* made on their own: what each was given and what it did
  sd, gv, gr,
  \* connection manager (Mgr): grpcClis.clis (0: no entry), grpcClis.mu (0:
  \* free, else the call that holds it), every dial made with its outcome and
  \* how often the connection was closed, one record per caller, the calls
  \* begun, the dials that may still fail, the last call that ran on each
  \* store, how often PdController.Close was called
  clis, mu, dialed, calls, ncalls, dialFaults, lastOp, pdClosed,
  \* RestoreTable: its position, the files of the table, the loop variable
  \* file shared by the goroutines, the loop counter, one record per
  \* goroutine, returnErr, what it returned, whether errCh is closed, the
  \* requests sent to the importer and their answers, rc.ctx, the requests
  \* that may still fail, whether a goroutine panicked
  rtPc, rtFiles, file, rtIdx, rtGo, returnErr, rtRet, errChClosed, rtLog, rtCtxDone,
  rtFaults, rtCrashed

codecVars == <<cPhase, cA, cB, cBuf, cEncA, cEncB, cDec>>

storeVars == <<pairs, db, dupDB>>

iterVars == <<itPhase, itSnap, itPos, curKey, curRawKey, curVal, itErr, itOp, itRet, itFwd, itTrav>>

mgrVars ==
  <<tableInfo, regionConcurrency, topo, faults, alwaysRegionError, ctxCancelled,
    rpcCancelled, dtPc, reqs, dtRet, tableErr, wg, wk, crashed>>

callVars == <<sd, gv, gr>>

connVars == <<clis, mu, dialed, calls, ncalls, dialFaults, lastOp, pdClosed>>

restoreVars ==
  <<rtPc, rtFiles, file, rtIdx, rtGo, returnErr, rtRet, errChClosed, rtLog, rtCtxDone,
    rtFaults, rtCrashed>>

VARIABLES
  \* tikvSender: the sender, its channels and workers; the batches handed
  \* to it, each with its position in the pipeline
  sender, batches,
  \* WithRetry: a call of it
  wr

senderVars == <<sender, batches>>

retryVars == <<wr>>

vars == <<codecVars, storeVars, iterVars, mgrVars, callVars, connVars, restoreVars, senderVars, retryVars>>

\* the sender, WithRetry not in use
SenderIdle == sender = [pc |-> "idle"] /\ batches = <<>>

RetryIdle == wr = [pc |-> "idle"]

\* the connection manager not in use
ConnIdle ==
  /\ clis = <<>> /\ mu = 0 /\ dialed = <<>> /\ calls = <<>> /\ ncalls = 0
  /\ dialFaults = 0 /\ lastOp = <<>> /\ pdClosed = 0

\* no table being restored
RestoreIdle ==
  /\ rtPc = "idle" /\ rtFiles = 0 /\ file = 0 /\ rtIdx = 0 /\ rtGo = <<>>
  /\ returnErr = "nil" /\ rtRet = "none" /\ errChClosed = FALSE /\ rtLog = <<>>
  /\ rtCtxDone = FALSE /\ rtFaults = 0 /\ rtCrashed = FALSE

\* no call made on its own
CallIdle == sd = [phase |-> "idle"] /\ gv = [phase |-> "idle"] /\ gr = [phase |-> "idle"]

\* the duplicate manager not in use
MgrIdle ==
  /\ tableInfo = [ID |-> 0, Indices |-> <<>>] /\ regionConcurrency = 0
  /\ topo = 1 /\ faults = 0 /\ alwaysRegionError = FALSE
  /\ ctxCancelled = FALSE /\ rpcCancelled = FALSE
  /\ dtPc = "idle" /\ reqs = <<>> /\ dtRet = "none" /\ tableErr = "nil"
  /\ wg = 0 /\ wk = <<>> /\ crashed = FALSE

\* the duplicate iterator and its engine not in use
IterIdle ==
  /\ pairs = {} /\ db = {} /\ dupDB = {}
  /\ itPhase = "idle" /\ itSnap = <<>> /\ itPos = 0
  /\ curKey = <<>> /\ curRawKey = <<>> /\ curVal = <<>> /\ itErr = "nil"
  /\ itOp = "none" /\ itRet = FALSE /\ itFwd = FALSE /\ itTrav = <<>>

(***************************************************************************)
(* Inputs of the codec.                                                    *)
(***************************************************************************)
I64Zero == <<0, 0, 0, 0>>

I64One == <<0, 0, 0, 1>>

I64MinusOne == <<-1, 65535, 65535, 65535>>

I64Min == <<-32768, 0, 0, 0>>

I64Max == <<32767, 65535, 65535, 65535>>

\* sequences over S of length at most n
SeqsUpTo(S, n) == UNION {[1..k -> S] : k \in 0..n}

\* row ids and offsets of the round trip: both signs, every limb in use
RowIDs == {I64Zero, I64MinusOne, <<0, 1, 2, 772>>}

Offsets == {I64One, I64Min}

\* buffers handed to EncodeKeySuffix: nil, and stale ones of several capacities
Bufs ==
  { NilSlice,
    [arr |-> [i \in 1..4 |-> 7], len |-> 2, panic |-> FALSE],
    [arr |-> [i \in 1..20 |-> 170], len |-> 20, panic |-> FALSE],
    [arr |-> [i \in 1..48 |-> 255], len |-> 5, panic |-> FALSE] }

Triple(k, r, o) == [key |-> k, rowID |-> r, offset |-> o]

CodecTriples ==
  {Triple(k, r, o) : k \in SeqsUpTo(ByteVals, MaxKeyLen), r \in RowIDs, o \in Offsets}

\* (rowID, offset) suffixes of the order check
OrdSuffixes ==
  { <<I64Zero, I64Zero>>, <<I64Zero, I64One>>, <<I64Zero, <<0, 0, 0, 256>>>>,
    <<I64Zero, I64MinusOne>>, <<I64One, I64Zero>>, <<I64Min, I64Zero>> }

\* n copies of byte b
Rep(b, n) == [i \in 1..n |-> b]

\* pairs of user keys: a common prefix, then two tails
OrdKeyPairs ==
  { <<Rep(f, n) \o ta, Rep(f, n) \o tb>> :
      f \in OrdByteVals, n \in 0..MaxFill,
      ta \in SeqsUpTo(OrdByteVals, MaxTail), tb \in SeqsUpTo(OrdByteVals, MaxTail) }

NoEnc == [data |-> <<>>, panic |-> FALSE]

\* the codec harness not in use
CodecIdle ==
  /\ cPhase = "idle" /\ cA = Triple(<<>>, I64Zero, I64Zero) /\ cB = cA /\ cBuf = NilSlice
  /\ cEncA = NoEnc /\ cEncB = NoEnc
  /\ cDec = [key |-> <<>>, rowID |-> I64Zero, offset |-> I64Zero, err |-> "none"]

NoDec == [key |-> <<>>, rowID |-> I64Zero, offset |-> I64Zero, err |-> "none"]

\* what a caller sees of an encode call: the bytes, or the panic
EncResult(s) == [data |-> IF s.panic THEN <<>> ELSE Bytes(s), panic |-> s.panic]

(***************************************************************************)
(* Codec round trip: encode one triple into a buffer, decode the result.   *)
(***************************************************************************)
CodecInit ==
  /\ cPhase = "input"
  /\ cA \in CodecTriples
  /\ cB = cA
  /\ cBuf \in Bufs
  /\ cEncA = NoEnc
  /\ cEncB = NoEnc
  /\ cDec = NoDec
  /\ IterIdle
  /\ MgrIdle
  /\ CallIdle
  /\ ConnIdle
  /\ RestoreIdle
  /\ SenderIdle
  /\ RetryIdle

CodecEncode ==
  /\ cPhase = "input"
  /\ cEncA' = EncResult(EncodeKeySuffix(cBuf, cA.key, cA.rowID, cA.offset))
  /\ cPhase' = "encoded"
  /\ UNCHANGED <<cA, cB, cBuf, cEncB, cDec, storeVars, iterVars, mgrVars, callVars, connVars, restoreVars, senderVars, retryVars>>

CodecDecode ==
  /\ cPhase = "encoded"
  /\ ~cEncA.panic
  /\ \E dbuf \in Bufs : cDec' = DecodeKeySuffix(dbuf, cEncA.data)
  /\ cPhase' = "decoded"
  /\ UNCHANGED <<cA, cB, cBuf, cEncA, cEncB, storeVars, iterVars, mgrVars, callVars, connVars, restoreVars, senderVars, retryVars>>

CodecNext == CodecEncode \/ CodecDecode

SpecCodec == CodecInit /\ [][CodecNext]_vars

(***************************************************************************)
(* Codec order: encode two triples and compare the encodings bytewise.     *)
(***************************************************************************)
OrderInit ==
  /\ cPhase = "input"
  /\ \E kp \in OrdKeyPairs, sa \in OrdSuffixes, sb \in OrdSuffixes :
        /\ cA = Triple(kp[1], sa[1], sa[2])
        /\ cB = Triple(kp[2], sb[1], sb[2])
  /\ cBuf = NilSlice
  /\ cEncA = NoEnc
  /\ cEncB = NoEnc
  /\ cDec = NoDec
  /\ IterIdle
  /\ MgrIdle
  /\ CallIdle
  /\ ConnIdle
  /\ RestoreIdle
  /\ SenderIdle
  /\ RetryIdle

OrderEncode ==
  /\ cPhase = "input"
  /\ cEncA' = EncResult(EncodeKeySuffix(cBuf, cA.key, cA.rowID, cA.offset))
  /\ cEncB' = EncResult(EncodeKeySuffix(cBuf, cB.key, cB.rowID, cB.offset))
  /\ cPhase' = "encoded"
  /\ UNCHANGED <<cA, cB, cBuf, cDec, storeVars, iterVars, mgrVars, callVars, connVars, restoreVars, senderVars, retryVars>>

OrderNext == OrderEncode

SpecOrder == OrderInit /\ [][OrderNext]_vars

\* lexicographic order of (user key, rowID unsigned, offset unsigned)
TripleLess(a, b) ==
  \/ BytesLess(a.key, b.key)
  \/ /\ a.key = b.key
     /\ \/ U64Less(Uint64(a.rowID), Uint64(b.rowID))
        \/ /\ a.rowID = b.rowID
           /\ U64Less(Uint64(a.offset), Uint64(b.offset))

(***************************************************************************)
(* C3: DecodeKeySuffix applied to the output of EncodeKeySuffix(buf, key,  *)
(* rowID, offset) returns exactly (key, rowID, offset) with no error,      *)
(* whatever the prior contents and capacity of buf (and EncodeKeySuffix    *)
(* itself does not panic).                                                 *)
(***************************************************************************)
C3_RoundTrip ==
  /\ cPhase \in {"encoded", "decoded"} =>
        /\ ~cEncA.panic
        /\ Len(cEncA.data) = EncodedKeyBytesLength(cA.key)
  /\ cPhase = "decoded" =>
        cDec = [key |-> cA.key, rowID |-> cA.rowID, offset |-> cA.offset, err |-> "nil"]

\* a key longer than one group, a negative rowID, a stale buffer that is too
\* small for the suffix: decoded
C3_Witness ==
  /\ cPhase = "decoded"
  /\ Len(cA.key) > encGroupSize
  /\ cA.rowID = I64MinusOne
  /\ cA.offset = I64Min
  /\ Cap(cBuf) = 20
  /\ cDec.err = "nil"

(***************************************************************************)
(* C4: the bytewise order of two EncodeKeySuffix outputs equals the        *)
(* lexicographic order of (user key, rowID as unsigned 64-bit, offset as   *)
(* unsigned 64-bit): a smaller user key encodes smaller whatever the       *)
(* suffixes, equal user keys order by (rowID, offset), negative signed     *)
(* values after the non-negative ones.                                     *)
(***************************************************************************)
C4_OrderPreserved ==
  cPhase = "encoded" =>
     /\ ~cEncA.panic /\ ~cEncB.panic
     /\ BytesLess(cEncA.data, cEncB.data) <=> TripleLess(cA, cB)
     /\ (cEncA.data = cEncB.data) <=> (cA = cB)

\* a key that is a proper prefix of the other, the longer one continuing with
\* 0x00 past a group boundary, the shorter one carrying the greater suffix
C4_Witness ==
  /\ cPhase = "encoded"
  /\ Len(cA.key) = encGroupSize
  /\ cB.key = cA.key \o <<0>>
  /\ cA.rowID = I64Min
  /\ cB.rowID = I64Zero
  /\ BytesLess(cEncA.data, cEncB.data)

(***************************************************************************)
(* Local engine store: the main DB and the duplicates DB are ordered maps  *)
(* from key bytes to value bytes, compared bytewise.                       *)
(***************************************************************************)
\* most pairs loaded into the main DB
MaxPairs == 4

\* user keys of the loaded pairs: one a proper prefix of another
IterKeys == {<<0>>, <<0, 0>>, <<255>>}

\* (rowID, offset) of the loaded pairs
IterSuffixes == {<<I64Zero, I64One>>, <<I64Zero, <<0, 0, 0, 256>>>>, <<I64MinusOne, I64Zero>>}

\* values of the loaded pairs
IterVals == {<<1>>, <<2>>}

IterPairs ==
  {[key |-> k, rowID |-> sfx[1], offset |-> sfx[2], val |-> v] :
      k \in IterKeys, sfx \in IterSuffixes, v \in IterVals}

(***************************************************************************)
(* Duplicate iterator over the main DB.                                    *)
(***************************************************************************)
\* the underlying iterator stands on an entry and no error was met
DupIterValid == itErr = "nil" /\ itPos # 0

\* fill: decode the entry under the underlying iterator into the visible one
FillKey(pos) == DecodeKeySuffix(NilSlice, itSnap[pos].key)

\* mutant: Next() stops at the next entry, whatever its user key
ScanGroup_NoSkip(i, dup, recordFirst) ==
  IF i > Len(itSnap) THEN [pos |-> 0, dup |-> dup, err |-> "nil"]
  ELSE [pos |-> i, dup |-> dup, err |-> "nil"]

\* mutant: only the later members of a group are recorded, not the first
RECURSIVE ScanGroup_LaterOnly(_, _, _)
ScanGroup_LaterOnly(i, dup, recordFirst) ==
  IF i > Len(itSnap) THEN [pos |-> 0, dup |-> dup, err |-> "nil"]
  ELSE LET d == DecodeKeySuffix(NilSlice, itSnap[i].key)
       IN  IF d.err # "nil" THEN [pos |-> i, dup |-> dup, err |-> d.err]
           ELSE IF d.key # curKey THEN [pos |-> i, dup |-> dup, err |-> "nil"]
           ELSE ScanGroup_LaterOnly(i + 1, DBSet(dup, itSnap[i].key, itSnap[i].val), TRUE)

\* the scan of Next() from entry i on: entries of the current user key are
\* written to the duplicates DB, the current one with the first of them
RECURSIVE ScanGroup(_, _, _)
ScanGroup(i, dup, recordFirst) ==
  IF i > Len(itSnap) THEN [pos |-> 0, dup |-> dup, err |-> "nil"]
  ELSE LET d == DecodeKeySuffix(NilSlice, itSnap[i].key)
       IN  IF d.err # "nil" THEN [pos |-> i, dup |-> dup, err |-> d.err]
           ELSE IF d.key # curKey THEN [pos |-> i, dup |-> dup, err |-> "nil"]
           ELSE ScanGroup(i + 1,
                          DBSet(IF recordFirst THEN dup ELSE DBSet(dup, curRawKey, curVal),
                                itSnap[i].key, itSnap[i].val),
                          TRUE)

\* where Next() takes the iterator from the visible entry
NextScan == ScanGroup(itPos + 1, dupDB, FALSE)

\* mutant: Last() steps back to the first member of the last group
LastPos_GroupStart ==
  IF itSnap = <<>> THEN 0
  ELSE CHOOSE i \in 1..Len(itSnap) :
         /\ DecodeKeySuffix(NilSlice, itSnap[i].key).key
              = DecodeKeySuffix(NilSlice, itSnap[Len(itSnap)].key).key
         /\ \A j \in 1..(i - 1) :
              DecodeKeySuffix(NilSlice, itSnap[j].key).key
                # DecodeKeySuffix(NilSlice, itSnap[Len(itSnap)].key).key

\* where Last() puts the underlying iterator
LastPos == Len(itSnap)

\* the engine is loaded: one pair is encoded and set in the main DB
LoadPair ==
  /\ itPhase = "load"
  /\ Cardinality(db) < MaxPairs
  /\ \E p \in IterPairs :
       /\ pairs' = {q \in pairs : ~(q.key = p.key /\ q.rowID = p.rowID /\ q.offset = p.offset)}
                     \cup {p}
       /\ db' = DBSet(db, Bytes(EncodeKeySuffix(NilSlice, p.key, p.rowID, p.offset)), p.val)
  /\ UNCHANGED <<dupDB, codecVars, iterVars, mgrVars, callVars, connVars, restoreVars, senderVars, retryVars>>

\* newDuplicateIterator(engineFile, opts): a snapshot of the main DB
NewDuplicateIterator ==
  /\ itPhase = "load"
  /\ itPhase' = "iter"
  /\ itSnap' = SortedEntries(db)
  /\ UNCHANGED <<itPos, curKey, curRawKey, curVal, itErr, itOp, itRet, itFwd, itTrav>>
  /\ UNCHANGED <<codecVars, storeVars, mgrVars, callVars, connVars, restoreVars, senderVars, retryVars>>

\* the iterator is put on entry pos (0: there is none) and filled
MoveTo(pos) ==
  IF itErr # "nil" \/ pos = 0
  THEN /\ itPos' = (IF itErr # "nil" THEN itPos ELSE 0)
       /\ itRet' = FALSE
       /\ UNCHANGED <<curKey, curRawKey, curVal, itErr>>
  ELSE /\ itPos' = pos
       /\ curKey' = FillKey(pos).key
       /\ itErr' = FillKey(pos).err
       /\ curRawKey' = itSnap[pos].key
       /\ curVal' = itSnap[pos].val
       /\ itRet' = (FillKey(pos).err = "nil")

DupIterFirst ==
  /\ itPhase = "iter"
  /\ MoveTo(IF itSnap = <<>> THEN 0 ELSE 1)
  /\ itOp' = "First"
  /\ itFwd' = TRUE
  /\ itTrav' = (IF itRet' THEN <<curKey'>> ELSE <<>>)
  /\ UNCHANGED <<itPhase, itSnap, codecVars, storeVars, mgrVars, callVars, connVars, restoreVars, senderVars, retryVars>>

DupIterLast ==
  /\ itPhase = "iter"
  /\ MoveTo(LastPos)
  /\ itOp' = "Last"
  /\ itFwd' = FALSE
  /\ itTrav' = <<>>
  /\ UNCHANGED <<itPhase, itSnap, codecVars, storeVars, mgrVars, callVars, connVars, restoreVars, senderVars, retryVars>>

\* Next(), called on a valid iterator as the traversal loop does
DupIterNext ==
  /\ itPhase = "iter"
  /\ DupIterValid
  /\ LET r == NextScan
     IN  /\ dupDB' = r.dup
         /\ itPos' = r.pos
         /\ itErr' = r.err
         /\ itRet' = (r.pos # 0 /\ r.err = "nil")
         /\ IF r.pos # 0 /\ r.err = "nil"
            THEN /\ curKey' = FillKey(r.pos).key
                 /\ curRawKey' = itSnap[r.pos].key
                 /\ curVal' = itSnap[r.pos].val
                 /\ itTrav' = (IF itFwd THEN Append(itTrav, curKey') ELSE itTrav)
            ELSE UNCHANGED <<curKey, curRawKey, curVal, itTrav>>
  /\ itOp' = "Next"
  /\ UNCHANGED <<itPhase, itSnap, itFwd, pairs, db, codecVars, mgrVars, callVars, connVars, restoreVars, senderVars, retryVars>>

\* Close(): the iterator is released
DupIterClose ==
  /\ itPhase = "iter"
  /\ itPhase' = "closed"
  /\ itOp' = "Close"
  /\ UNCHANGED <<itSnap, itPos, curKey, curRawKey, curVal, itErr, itRet, itFwd, itTrav>>
  /\ UNCHANGED <<codecVars, storeVars, mgrVars, callVars, connVars, restoreVars, senderVars, retryVars>>

IterInit ==
  /\ CodecIdle
  /\ MgrIdle
  /\ CallIdle
  /\ ConnIdle
  /\ RestoreIdle
  /\ SenderIdle
  /\ RetryIdle
  /\ pairs = {} /\ db = {} /\ dupDB = {}
  /\ itPhase = "load" /\ itSnap = <<>> /\ itPos = 0
  /\ curKey = <<>> /\ curRawKey = <<>> /\ curVal = <<>> /\ itErr = "nil"
  /\ itOp = "none" /\ itRet = FALSE /\ itFwd = FALSE /\ itTrav = <<>>

IterStep == LoadPair \/ NewDuplicateIterator \/ DupIterFirst \/ DupIterLast \/ DupIterNext \/ DupIterClose

SpecIter == IterInit /\ [][IterStep]_vars

(***************************************************************************)
(* What the claims about the iterator compare it with, computed from the   *)
(* pairs loaded and not from the encoded keys.                             *)
(***************************************************************************)
UserKeys == {p.key : p \in pairs}

\* the distinct user keys in ascending order
RECURSIVE SortedKeys(_)
SortedKeys(K) ==
  IF K = {} THEN <<>>
  ELSE LET m == CHOOSE k \in K : \A l \in K \ {k} : BytesLess(k, l)
       IN  <<m>> \o SortedKeys(K \ {m})

\* the pairs of one user key
Group(k) == {p \in pairs : p.key = k}

\* (rowID, offset) of p before that of q, both as unsigned 64-bit
SuffixLess(p, q) ==
  \/ U64Less(Uint64(p.rowID), Uint64(q.rowID))
  \/ p.rowID = q.rowID /\ U64Less(Uint64(p.offset), Uint64(q.offset))

\* the member of a group with the smallest (rowID, offset)
FirstOfGroup(k) == CHOOSE p \in Group(k) : \A q \in Group(k) \ {p} : SuffixLess(p, q)

\* the member of a group with the greatest (rowID, offset)
LastOfGroup(k) == CHOOSE p \in Group(k) : \A q \in Group(k) \ {p} : SuffixLess(q, p)

\* a complete forward traversal: First(), then Next() until Valid() is false
TraversalDone == itPhase = "iter" /\ itFwd /\ ~DupIterValid /\ itOp \in {"First", "Next"}

(***************************************************************************)
(* C1: a forward traversal of the duplicate iterator (First, then Next     *)
(* until Valid is false) yields each distinct user key exactly once, in    *)
(* ascending order, Key() being the decoded user key, and Error() is nil   *)
(* at the end.                                                             *)
(***************************************************************************)
C1_TraversalYieldsDistinctKeys ==
  /\ TraversalDone => itTrav = SortedKeys(UserKeys) /\ itErr = "nil"
  /\ (itPhase = "iter" /\ itFwd /\ DupIterValid) =>
        /\ Len(itTrav) \in 1..Cardinality(UserKeys)
        /\ itTrav = SubSeq(SortedKeys(UserKeys), 1, Len(itTrav))
        /\ curKey = itTrav[Len(itTrav)]

\* a traversal that ended after three user keys, one of them loaded twice
C1_Witness ==
  /\ TraversalDone
  /\ Len(itTrav) = 3
  /\ Cardinality(pairs) = 4

(***************************************************************************)
(* C2: after a complete forward traversal the duplicates DB holds exactly  *)
(* the pairs (encoded key, value) whose user key occurs more than once in  *)
(* the main DB, the first member of each group included, and no pair whose *)
(* user key is unique.                                                     *)
(***************************************************************************)
DuplicatePairs ==
  {[key |-> Bytes(EncodeKeySuffix(NilSlice, p.key, p.rowID, p.offset)), val |-> p.val] :
      p \in {q \in pairs : Cardinality(Group(q.key)) > 1}}

C2_DuplicatesRecorded ==
  /\ TraversalDone => dupDB = DuplicatePairs
  /\ dupDB \subseteq DuplicatePairs

\* a group of three and a unique pair: the three recorded, the unique one not
C2_Witness ==
  /\ TraversalDone
  /\ Cardinality(dupDB) = 3
  /\ \E k \in UserKeys : Cardinality(Group(k)) = 3
  /\ \E k \in UserKeys : Cardinality(Group(k)) = 1

C6_LastIsGreatest ==
  (itPhase = "iter" /\ itOp = "Last" /\ pairs # {}) =>
     /\ itRet
     /\ DupIterValid
     /\ curKey = SortedKeys(UserKeys)[Cardinality(UserKeys)]
     /\ curVal = LastOfGroup(curKey).val
     /\ \A e \in db : ~BytesLess(curRawKey, e.key)

\* the greatest user key has two members with different values
C6_Witness ==
  /\ itPhase = "iter" /\ itOp = "Last"
  /\ Cardinality(Group(curKey)) = 2
  /\ FirstOfGroup(curKey).val # curVal

(***************************************************************************)
(* Duplicate manager: the calls it makes to the cluster.                   *)
(* A remote call made on a cancelled context fails; otherwise it fails     *)
(* when the cluster lets it, at most MaxFaults times in a run.             *)
(***************************************************************************)
MaxFaults == 2

maxRetryTimes == 5

\* codec.EncodeBytes([]byte{}, key)
Enc(key) == Bytes(EncodeBytes(MakeSlice(0, 0), key))

\* ctx.Err() != nil for the context the workers are given
CtxDone == ctxCancelled \/ rpcCancelled

\* whether one remote call made now fails
CallFails == IF CtxDone THEN {TRUE} ELSE IF faults > 0 THEN {FALSE, TRUE} ELSE {FALSE}

\* whether one write to the local store made now fails
DiskFails == IF faults > 0 THEN {FALSE, TRUE} ELSE {FALSE}

\* what a failed remote call, a failed local write takes from the budget
RpcCost(fails) == IF fails /\ ~CtxDone THEN 1 ELSE 0

DiskCost(fails) == IF fails THEN 1 ELSE 0

\* paginateScanRegion(ctx, splitCli, startKey, endKey, limit): may refuse an
\* empty range
ScanFails(startKey, endKey) ==
  IF endKey # <<>> /\ ~BytesLess(startKey, endKey) THEN {FALSE, TRUE} ELSE CallFails

paginateScanRegion(startKey, endKey) == ScanRegions(topo, startKey, endKey)

\* splitCli.GetRegionByID(ctx, id): nil when the region is gone
GetRegionByID(id) ==
  IF \E i \in DOMAIN RegionsOf(topo) : RegionsOf(topo)[i].id = id
  THEN RegionsOf(topo)[CHOOSE i \in DOMAIN RegionsOf(topo) : RegionsOf(topo)[i].id = id]
  ELSE NilRegion

\* the region epoch a request carries is not the cluster's any more
Stale(region) == \A i \in DOMAIN RegionsOf(topo) : RegionsOf(topo)[i] # region

\* getDuplicateStream: the client of a stream just opened
getDuplicateStream(region, start, end) ==
  [nil |-> FALSE, region |-> region, start |-> start, end |-> end, sent |-> 0]

\* what cli.Recv() can answer
RecvOutcomes(cli) ==
  IF CtxDone THEN {"err"}
  ELSE IF alwaysRegionError \/ Stale(cli.region) THEN {"regionErr"}
  ELSE (IF faults > 0 THEN {"err", "keyErr"} ELSE {})
       \cup {IF cli.sent < Len(StreamPairs(cli.region, cli.start, cli.end))
             THEN "pairs" ELSE "eof"}

\* the response of a stream that has pairs left: the next pair
RecvPairs(cli) == <<StreamPairs(cli.region, cli.start, cli.end)[cli.sent + 1]>>

\* what getKvClient and KvBatchGet can answer, the region error aside
BatchGetOutcomes ==
  IF CtxDone THEN {"err"}
  ELSE (IF faults > 0 THEN {"err", "keyErr"} ELSE {}) \cup {"ok"}

\* kvclient.KvBatchGet(ctx, req): the answer of the cluster to a request of
\* kind `get` for the keys, sent with the region's id and epoch
KvBatchGet(get, region, keys) ==
  [kind  |-> IF get = "err" THEN "err"
             ELSE IF Stale(region) THEN "regionErr"
             ELSE get,
   pairs |-> IF get = "ok" /\ ~Stale(region) THEN SortedEntries(RowsOf(keys)) ELSE <<>>]

\* mutant: the writes of a batch add records and replace none
DBSetAll_Add(d, kvs) == d \cup {[key |-> kvs[i].key, val |-> kvs[i].val] : i \in DOMAIN kvs}

\* the writes of a batch, committed: under each key the last value set stays
DBSetAll(d, kvs) ==
  {e \in d : \A i \in DOMAIN kvs : kvs[i].key # e.key}
    \cup {[key |-> kvs[i].key, val |-> kvs[i].val] :
            i \in {i \in DOMAIN kvs : \A j \in DOMAIN kvs : j > i => kvs[j].key # kvs[i].key}}

maxWriteBatchCount == 128

\* b.Commit(opts), the n-th commit of a call counted from 0: the first
\* commitErrs commits fail and write nothing
CommitOf(w, batch, commitErrs) ==
  IF w.n < commitErrs
  THEN [w EXCEPT !.err = "commit failed", !.n = @ + 1]
  ELSE [w EXCEPT !.err = "nil", !.n = @ + 1, !.db = DBSetAll(@, batch),
                 !.commits = Append(@, batch)]

\* one attempt of getValuesFromRegion to write the pairs left (kvs), batch
\* being the sets of the batch so far: the loop over resp.Pairs, which
\* commits as soon as the batch holds more than maxWriteBatchCount sets, then
\* the commit of the rest, made only when err is nil
RECURSIVE WriteAttempt(_, _, _, _)
WriteAttempt(w, kvs, batch, commitErrs) ==
  LET room == maxWriteBatchCount + 1 - Len(batch)
  IN  IF Len(kvs) < room
      THEN IF w.err = "nil" THEN CommitOf(w, batch \o kvs, commitErrs) ELSE w
      ELSE LET c == CommitOf(w, batch \o SubSeq(kvs, 1, room), commitErrs)
           IN  IF c.err # "nil" THEN c
               ELSE WriteAttempt(c, SubSeq(kvs, room + 1, Len(kvs)), <<>>, commitErrs)

\* the attempts of getValuesFromRegion from the i-th on; err is carried from
\* one attempt to the next
RECURSIVE WriteAttempts(_, _, _, _)
WriteAttempts(w, kvs, i, commitErrs) ==
  IF i >= maxRetryTimes THEN w
  ELSE LET a == WriteAttempt(w, kvs, <<>>, commitErrs)
       IN  IF a.err = "nil" THEN a ELSE WriteAttempts(a, kvs, i + 1, commitErrs)

\* getValuesFromRegion on the store d, resp being the answer to its
\* KvBatchGet: the store after it, the error, the commits made (commits, n
\* with the failed ones) and the keys of the request sent
getValuesFromRegion(d, region, handles, resp, commitErrs) ==
  LET w0 == [db |-> d, err |-> "nil", n |-> 0, commits |-> <<>>,
             gets |-> <<[region |-> region.id, keys |-> handles]>>]
  IN  IF resp.kind = "err" THEN [w0 EXCEPT !.err = "rpc error"]
      ELSE IF resp.kind = "regionErr" THEN [w0 EXCEPT !.err = "region error"]
      ELSE IF resp.kind = "keyErr" THEN [w0 EXCEPT !.err = "key error"]
      ELSE WriteAttempts(w0, resp.pairs, 0, commitErrs)

\* sort.Slice(handles, bytes.Compare < 0)
RECURSIVE SortHandles(_)
SortHandles(hs) ==
  IF hs = <<>> THEN <<>>
  ELSE LET m == CHOOSE i \in DOMAIN hs : \A j \in DOMAIN hs : ~BytesLess(hs[j], hs[i])
       IN  <<hs[m]>> \o SortHandles([k \in 1..(Len(hs) - 1) |-> IF k < m THEN hs[k] ELSE hs[k + 1]])

\* the loop of GetValues over the regions scanned; startIdx counts from 0,
\* gets are the BatchGet requests sent so far.
\* The inner loop appends handles[endIdx] while it lies in the region and
\* never advances endIdx: when it is entered it does not end (hang).
RECURSIVE GetValuesRegions(_, _, _, _, _, _, _, _, _)
GetValuesRegions(d, regions, handles, startIdx, batch, retryHandles, gets, get, commitErrs) ==
  IF regions = <<>>
  THEN [db |-> d, handles |-> retryHandles, hang |-> FALSE, gets |-> gets]
  ELSE LET region    == Head(regions)
           handleKey == Enc(handles[startIdx + 1])
       IN  IF ~BytesLess(handleKey, region.end)
           THEN GetValuesRegions(d, Tail(regions), handles, startIdx, batch, retryHandles,
                                 gets, get, commitErrs)
           ELSE IF startIdx < Len(handles) /\ BytesLess(Enc(handles[startIdx + 1]), region.end)
           THEN [db |-> d, handles |-> retryHandles, hang |-> TRUE, gets |-> gets]
           ELSE LET g == getValuesFromRegion(d, region, batch, KvBatchGet(get, region, batch),
                                             commitErrs)
                IN  GetValuesRegions(g.db, Tail(regions), handles, startIdx, batch,
                                     IF g.err # "nil" THEN retryHandles \o batch ELSE retryHandles,
                                     gets \o g.gets, get, commitErrs)

\* GetValues(ctx, handles) on the store d: the store after it, the handles
\* it returns, whether it hangs, the BatchGet requests it sent
GetValues(d, handles, scanFails, get, commitErrs) ==
  LET sorted   == SortHandles(handles)
      startKey == Enc(sorted[1])
      endKey   == Enc(sorted[Len(sorted)])
  IN  IF scanFails THEN [db |-> d, handles |-> sorted, hang |-> FALSE, gets |-> <<>>]
      ELSE GetValuesRegions(d, paginateScanRegion(startKey, endKey), sorted, 0,
                            MakeZeroed(Len(sorted), <<>>), MakeZeroed(1, <<>>), <<>>,
                            get, commitErrs)

\* the handles storeDuplicateData collects from the pairs of an index request
RECURSIVE HandlesOf(_, _)
HandlesOf(kvs, decodeFails) ==
  IF kvs = <<>> THEN <<>>
  ELSE (IF decodeFails THEN <<>> ELSE <<HandleKeyOfIndex(Head(kvs).key)>>)
       \o HandlesOf(Tail(kvs), decodeFails)

\* storeDuplicateData on the store d: the store after it, the handles and
\* the error it returns, the BatchGet requests sent, the batches committed.
\* commitErrs is the number of attempts whose commit fails, get and
\* getCommitErrs are the answer to the BatchGet and the failing commits of
\* getValuesFromRegion.
storeDuplicateData(d, region, resp, req, commitErrs, decodeFails, get, getCommitErrs) ==
  LET handles == MakeZeroed(Len(resp), <<>>) \o
                   (IF ~req.indexInfo.nil THEN HandlesOf(resp, decodeFails) ELSE <<>>)
      d1      == IF ~req.indexInfo.nil THEN d ELSE DBSetAll(d, resp)
      g       == getValuesFromRegion(d1, region, handles, KvBatchGet(get, region, handles),
                                     getCommitErrs)
  IN  IF commitErrs >= maxRetryTimes
      THEN [db |-> d, handles |-> <<>>, err |-> "commit failed", gets |-> <<>>,
            attempts |-> maxRetryTimes, commits |-> <<>>]
      ELSE IF g.err = "nil"
      THEN [db |-> g.db, handles |-> <<>>, err |-> "nil", gets |-> g.gets,
            attempts |-> commitErrs + 1,
            commits |-> <<IF ~req.indexInfo.nil THEN <<>> ELSE resp>> \o g.commits]
      ELSE [db |-> g.db, handles |-> handles, err |-> "nil", gets |-> g.gets,
            attempts |-> commitErrs + 1,
            commits |-> <<IF ~req.indexInfo.nil THEN <<>> ELSE resp>> \o g.commits]

(***************************************************************************)
(* Duplicate manager: DuplicateTable and its goroutines.                   *)
(***************************************************************************)
\* the number of commits of a call that fail, counted from its first
CommitErrs == IF faults > 0 THEN {0, 1, maxRetryTimes} ELSE {0}

\* the state of the goroutine DuplicateTable starts for a request
NewWorker(req) ==
  [pc |-> "start", req |-> req, ret |-> "none", regions |-> <<>>, tryTimes |-> 0,
   indexHandles |-> <<>>, unfinishedRegions |-> <<>>, waitingClients |-> <<>>,
   watingRegions |-> <<>>, idx |-> 0]

\* a nil dereference in goroutine w: the run-time ends the process
Panic(w) ==
  /\ wk' = [wk EXCEPT ![w].pc = "panicked"]
  /\ crashed' = TRUE
  /\ UNCHANGED <<faults, db>>

\* the bounds of the stream opened on a region for a request
StreamStart(req, region) ==
  IF BytesLess(region.start, Enc(req.start)) THEN req.start
  ELSE DecodeBytes(region.start, MakeSlice(0, 0)).key

\* mutant: the end of the stream is the end of the region whatever the
\* request's end
StreamEnd_RegionEnd(req, region) == DecodeBytes(region.end, MakeSlice(0, 0)).key

StreamEnd(req, region) ==
  IF region.end = <<>> \/ BytesLess(Enc(req.end), region.end) THEN req.end
  ELSE DecodeBytes(region.end, MakeSlice(0, 0)).key

\* DuplicateTable, one step of it: build the requests and the decoder, start
\* a goroutine, or return once the WaitGroup is at zero
DuplicateTable ==
  /\ ~crashed
  /\ dtPc \in {"build", "spawn", "wait"}
  /\ dtPc = "wait" => wg = 0
  /\ \E decoderFails \in (IF dtPc = "build" /\ faults > 0 THEN {FALSE, TRUE} ELSE {FALSE}) :
       CASE dtPc = "build" ->
              /\ reqs' = buildDuplicateRequests(tableInfo)
              /\ dtPc' = IF decoderFails THEN "returned" ELSE "spawn"
              /\ dtRet' = IF decoderFails THEN "new decoder failed" ELSE dtRet
              /\ faults' = IF decoderFails THEN faults - 1 ELSE faults
              /\ UNCHANGED <<wg, wk, rpcCancelled>>
         [] dtPc = "spawn" ->
              /\ IF Len(wk) < Len(reqs)
                 THEN /\ wg' = wg + 1
                      /\ wk' = Append(wk, NewWorker(reqs[Len(wk) + 1]))
                      /\ dtPc' = dtPc
                 ELSE /\ dtPc' = "wait"
                      /\ UNCHANGED <<wg, wk>>
              /\ UNCHANGED <<reqs, dtRet, faults, rpcCancelled>>
         [] dtPc = "wait" ->
              /\ dtPc' = "returned"
              /\ dtRet' = "nil"
              /\ rpcCancelled' = TRUE
              /\ UNCHANGED <<reqs, wg, wk, faults>>
  /\ UNCHANGED <<tableInfo, regionConcurrency, topo, alwaysRegionError, ctxCancelled,
                 tableErr, crashed>>
  /\ UNCHANGED <<codecVars, storeVars, iterVars, callVars, connVars, restoreVars, senderVars, retryVars>>

\* what a step of a goroutine leaves alone
WorkerFrame ==
  /\ UNCHANGED <<tableInfo, regionConcurrency, topo, alwaysRegionError, ctxCancelled,
                 rpcCancelled, dtPc, reqs, dtRet, tableErr, wg>>
  /\ UNCHANGED <<codecVars, pairs, dupDB, iterVars, callVars, connVars, restoreVars, senderVars, retryVars>>

\* sendRequestToTiKV up to its loop: encode the bounds, scan the regions
SendStart(w) ==
  /\ ~crashed
  /\ w \in DOMAIN wk
  /\ wk[w].pc = "start"
  /\ LET req == wk[w].req
     IN  IF req.nil THEN Panic(w)
         ELSE \E scanFails \in ScanFails(Enc(req.start), Enc(req.end)) :
                LET regions == paginateScanRegion(Enc(req.start), Enc(req.end))
                IN  /\ faults' = faults - RpcCost(scanFails)
                    /\ wk' = [wk EXCEPT ![w] =
                                IF scanFails
                                THEN [@ EXCEPT !.pc = "exit", !.ret = "scan regions failed"]
                                ELSE [@ EXCEPT !.pc = "pass", !.regions = regions,
                                               !.tryTimes = 0,
                                               !.indexHandles = MakeZeroed(Len(regions), <<>>)]]
                    /\ UNCHANGED <<crashed, db>>
  /\ WorkerFrame

\* the head of a pass: leave the loop, give up, or allocate the pass's slices
PassBegin(w) ==
  /\ ~crashed
  /\ w \in DOMAIN wk
  /\ wk[w].pc = "pass"
  /\ LET n == Len(wk[w].regions)
     IN  wk' = [wk EXCEPT ![w] =
                  IF n = 0 THEN [@ EXCEPT !.pc = "exit", !.ret = "nil"]
                  ELSE IF @.tryTimes > maxRetryTimes
                  THEN [@ EXCEPT !.pc = "exit", !.ret = "retry time exceed limit"]
                  ELSE [@ EXCEPT !.pc = "open", !.idx = 1,
                                 !.unfinishedRegions = MakeZeroed(n, NilRegion),
                                 !.waitingClients = MakeZeroed(n, NilClient),
                                 !.watingRegions = MakeZeroed(n, NilRegion)]]
  /\ UNCHANGED <<crashed, faults, db>>
  /\ WorkerFrame

\* the lookup's answer appended whether or not the lookup failed
DeferredRegion_NoFallback(region, lookupFails) ==
  IF lookupFails THEN NilRegion ELSE GetRegionByID(region.id)

\* the region appended to unfinishedRegions when its stream could not be
\* opened: as GetRegionByID has it, or as it was when the lookup fails
DeferredRegion(region, lookupFails) ==
  IF lookupFails THEN region ELSE GetRegionByID(region.id)

\* one round of the loop over regions: defer the rest when the cap is
\* passed, else open the stream of regions[idx]
OpenRegion(w) ==
  /\ ~crashed
  /\ w \in DOMAIN wk
  /\ wk[w].pc = "open"
  /\ LET s == wk[w]
     IN  IF s.idx > Len(s.regions)
         THEN /\ wk' = [wk EXCEPT ![w].pc = "flush"]
              /\ UNCHANGED <<crashed, faults, db>>
         ELSE IF Len(s.waitingClients) > regionConcurrency
         THEN /\ wk' = [wk EXCEPT ![w] =
                          [@ EXCEPT !.pc = "flush",
                                    !.unfinishedRegions =
                                       @ \o SubSeq(s.regions, s.idx, Len(s.regions))]]
              /\ UNCHANGED <<crashed, faults, db>>
         ELSE IF s.regions[s.idx].nil THEN Panic(w)
         ELSE \E openFails \in CallFails, lookupFails \in CallFails :
                LET region == s.regions[s.idx]
                    cli    == getDuplicateStream(region, StreamStart(s.req, region),
                                                 StreamEnd(s.req, region))
                    cost   == RpcCost(openFails) + RpcCost(openFails /\ lookupFails)
                IN  /\ cost <= faults
                    /\ faults' = faults - cost
                    /\ wk' = [wk EXCEPT ![w] =
                                IF openFails
                                THEN [@ EXCEPT !.idx = @ + 1,
                                               !.unfinishedRegions =
                                                  Append(@, DeferredRegion(region, lookupFails))]
                                ELSE [@ EXCEPT !.idx = @ + 1,
                                               !.waitingClients = Append(@, cli),
                                               !.watingRegions = Append(@, region)]]
                    /\ UNCHANGED <<crashed, db>>
  /\ WorkerFrame

\* between the two loops: fetch the rows of the index handles collected
FlushHandles(w) ==
  /\ ~crashed
  /\ w \in DOMAIN wk
  /\ wk[w].pc = "flush"
  /\ LET s == wk[w]
     IN  IF Len(s.indexHandles) > 0
         THEN \E scanFails \in ScanFails(Enc(SortHandles(s.indexHandles)[1]),
                                         Enc(SortHandles(s.indexHandles)[Len(s.indexHandles)])),
                 get \in BatchGetOutcomes, commitErrs \in CommitErrs :
                LET g    == GetValues(db, s.indexHandles, scanFails, get, commitErrs)
                    cost == RpcCost(get # "ok") + DiskCost(commitErrs > 0)
                             + (IF scanFails \in CallFails THEN RpcCost(scanFails) ELSE 0)
                IN  /\ cost <= faults
                    /\ faults' = faults - cost
                    /\ wk' = [wk EXCEPT ![w] =
                                IF g.hang THEN [@ EXCEPT !.pc = "hang"]
                                ELSE [@ EXCEPT !.pc = "recv", !.idx = 1,
                                               !.indexHandles =
                                                  IF Len(g.handles) > 0 THEN g.handles ELSE <<>>]]
                    /\ db' = g.db
                    /\ UNCHANGED crashed
         ELSE /\ wk' = [wk EXCEPT ![w] = [@ EXCEPT !.pc = "recv", !.idx = 1]]
              /\ UNCHANGED <<crashed, faults, db>>
  /\ WorkerFrame

\* one round of the loop over the streams: receive from waitingClients[idx]
\* and act on the answer; past the last stream, the end of the pass
RecvLoop(w) ==
  /\ ~crashed
  /\ w \in DOMAIN wk
  /\ wk[w].pc = "recv"
  /\ LET s == wk[w]
     IN  IF s.idx > Len(s.waitingClients)
         THEN /\ wk' = [wk EXCEPT ![w] =
                          [@ EXCEPT !.pc = "pass",
                                    !.tryTimes = IF Len(s.unfinishedRegions) = Len(s.regions)
                                                 THEN @ + 1 ELSE @,
                                    !.regions = s.unfinishedRegions]]
              /\ UNCHANGED <<crashed, faults, db>>
         ELSE IF s.waitingClients[s.idx].nil THEN Panic(w)
         ELSE \E out \in RecvOutcomes(s.waitingClients[s.idx]),
                 lookupFails \in CallFails,
                 scanFails \in ScanFails(s.watingRegions[s.idx].start, s.watingRegions[s.idx].end),
                 commitErrs \in CommitErrs, decodeFails \in DiskFails,
                 get \in BatchGetOutcomes, getCommitErrs \in CommitErrs :
                LET cli     == s.waitingClients[s.idx]
                    region  == s.watingRegions[s.idx]
                    looked  == IF lookupFails THEN region ELSE GetRegionByID(region.id)
                    scanned == IF scanFails THEN <<region>>
                               ELSE paginateScanRegion(region.start, region.end)
                    st      == storeDuplicateData(db, region, RecvPairs(cli), s.req, commitErrs,
                                                  decodeFails, get, getCommitErrs)
                    cost    == CASE out = "eof" -> 0
                                 [] out \in {"err", "keyErr"} -> RpcCost(TRUE) + RpcCost(lookupFails)
                                 [] out = "regionErr" -> RpcCost(scanFails)
                                 [] out = "pairs" ->
                                      DiskCost(commitErrs > 0) + DiskCost(decodeFails)
                                      + RpcCost(get # "ok") + DiskCost(getCommitErrs > 0)
                IN  /\ cost <= faults
                    /\ faults' = faults - cost
                    /\ wk' = [wk EXCEPT ![w] =
                                CASE out = "eof" -> [@ EXCEPT !.idx = @ + 1]
                                  [] out \in {"err", "keyErr"} ->
                                       [@ EXCEPT !.idx = @ + 1,
                                                 !.unfinishedRegions = Append(@, looked)]
                                  [] out = "regionErr" ->
                                       [@ EXCEPT !.idx = @ + 1,
                                                 !.unfinishedRegions = @ \o scanned]
                                  [] out = "pairs" ->
                                       IF st.err # "nil"
                                       THEN [@ EXCEPT !.pc = "exit", !.ret = st.err]
                                       ELSE [@ EXCEPT !.indexHandles = @ \o st.handles,
                                                      !.waitingClients[s.idx].sent = @ + 1]]
                    /\ db' = IF out = "pairs" THEN st.db ELSE db
                    /\ UNCHANGED crashed
  /\ WorkerFrame

\* mutant: the error is recorded and the peers are not cancelled
WorkerExit_NoCancel(w) ==
  /\ ~crashed
  /\ w \in DOMAIN wk
  /\ wk[w].pc = "exit"
  /\ wk' = [wk EXCEPT ![w].pc = "done"]
  /\ tableErr' = IF wk[w].ret # "nil" /\ tableErr = "nil" THEN wk[w].ret ELSE tableErr
  /\ wg' = wg - 1
  /\ UNCHANGED <<tableInfo, regionConcurrency, topo, faults, alwaysRegionError, ctxCancelled,
                 rpcCancelled, dtPc, reqs, dtRet, crashed>>
  /\ UNCHANGED <<codecVars, storeVars, iterVars, callVars, connVars, restoreVars, senderVars, retryVars>>

\* the goroutine after sendRequestToTiKV returned: record the error and
\* cancel the peers, then wg.Done()
WorkerExit(w) ==
  /\ ~crashed
  /\ w \in DOMAIN wk
  /\ wk[w].pc = "exit"
  /\ wk' = [wk EXCEPT ![w].pc = "done"]
  /\ tableErr' = IF wk[w].ret # "nil" /\ tableErr = "nil" THEN wk[w].ret ELSE tableErr
  /\ rpcCancelled' = (rpcCancelled \/ wk[w].ret # "nil")
  /\ wg' = wg - 1
  /\ UNCHANGED <<tableInfo, regionConcurrency, topo, faults, alwaysRegionError, ctxCancelled,
                 dtPc, reqs, dtRet, crashed>>
  /\ UNCHANGED <<codecVars, storeVars, iterVars, callVars, connVars, restoreVars, senderVars, retryVars>>

\* the caller cancels the context it gave to DuplicateTable
CtxCancel ==
  /\ ~crashed
  /\ dtPc \in {"build", "spawn", "wait"}
  /\ ~ctxCancelled
  /\ ctxCancelled' = TRUE
  /\ UNCHANGED <<tableInfo, regionConcurrency, topo, faults, alwaysRegionError, rpcCancelled,
                 dtPc, reqs, dtRet, tableErr, wg, wk, crashed>>
  /\ UNCHANGED <<codecVars, storeVars, iterVars, callVars, connVars, restoreVars, senderVars, retryVars>>

\* the cluster splits its region at SplitKey
RegionSplit ==
  /\ ~crashed
  /\ dtPc \in {"build", "spawn", "wait"}
  /\ topo = 1
  /\ topo' = 2
  /\ UNCHANGED <<tableInfo, regionConcurrency, faults, alwaysRegionError, ctxCancelled,
                 rpcCancelled, dtPc, reqs, dtRet, tableErr, wg, wk, crashed>>
  /\ UNCHANGED <<codecVars, storeVars, iterVars, callVars, connVars, restoreVars, senderVars, retryVars>>

MgrInit ==
  /\ CodecIdle
  /\ IterIdle
  /\ CallIdle
  /\ ConnIdle
  /\ RestoreIdle
  /\ SenderIdle
  /\ RetryIdle
  /\ tableInfo \in TableInfos
  /\ regionConcurrency \in {1, 2}
  /\ topo = 1
  /\ faults = MaxFaults
  /\ alwaysRegionError \in BOOLEAN
  /\ ctxCancelled = FALSE
  /\ rpcCancelled = FALSE
  /\ dtPc = "build"
  /\ reqs = <<>>
  /\ dtRet = "none"
  /\ tableErr = "nil"
  /\ wg = 0
  /\ wk = <<>>
  /\ crashed = FALSE

MgrNext ==
  \/ DuplicateTable
  \/ \E w \in DOMAIN wk : SendStart(w)
  \/ \E w \in DOMAIN wk : PassBegin(w)
  \/ \E w \in DOMAIN wk : OpenRegion(w)
  \/ \E w \in DOMAIN wk : FlushHandles(w)
  \/ \E w \in DOMAIN wk : RecvLoop(w)
  \/ \E w \in DOMAIN wk : WorkerExit(w)
  \/ CtxCancel
  \/ RegionSplit

SpecMgr == MgrInit /\ [][MgrNext]_vars

(***************************************************************************)
(* Claims about the duplicate manager.                                     *)
(***************************************************************************)
\* the goroutine of request w is over: sendRequestToTiKV returned, or it
\* panicked
WorkerOver(w) == wk[w].pc \in {"exit", "done", "panicked"}

\* DuplicateTable is over: it returned, or the process died under it
TableOver == dtPc = "returned" \/ crashed

\* the call made for request w was given a request and met no trouble but
\* the one the cluster's region map makes: no call failed, nothing cancelled
Undisturbed(w) == ~wk[w].req.nil /\ faults = MaxFaults /\ ~CtxDone

\* C7: once DuplicateTable is over after a worker reported a fatal error, it
\* has returned the first error reported; and it has returned success only
\* if sendRequestToTiKV returned success in every worker.
C7_ReturnsFirstWorkerError ==
  /\ (TableOver /\ tableErr # "nil") => dtRet = tableErr
  /\ dtRet = "nil" => \A w \in DOMAIN wk : wk[w].ret = "nil"

\* C8: a call of sendRequestToTiKV whose streams answer with a region error
\* on every pass is over only by returning the retry-exceeded error, and
\* then after exactly maxRetryTimes passes without progress.
C8_RetryExceededAfterMaxRetryTimes ==
  \A w \in DOMAIN wk :
    (alwaysRegionError /\ Undisturbed(w) /\ WorkerOver(w)) =>
      /\ wk[w].ret = "retry time exceed limit"
      /\ wk[w].tryTimes = maxRetryTimes

\* the pairs the cluster streams for a request
PairsOfRequest(req) ==
  {p \in RemotePairs : ~BytesLess(p.key, req.start) /\ BytesLess(p.key, req.end)}

\* C9: when the region was split under the manager, so that a stream opened
\* on it answers with a region error and the regions scanned anew stream
\* their pairs up to EOF, a call of sendRequestToTiKV is over only by
\* returning success, with every pair streamed for a table request in the
\* main DB, and DuplicateTable is over only by returning success.
C9_RegionErrorThenSuccess ==
  (topo = 2 /\ ~alwaysRegionError /\ faults = MaxFaults /\ ~ctxCancelled) =>
    /\ \A w \in DOMAIN wk :
         (~wk[w].req.nil /\ WorkerOver(w)) =>
           /\ wk[w].ret = "nil"
           /\ wk[w].req.indexInfo.nil => PairsOfRequest(wk[w].req) \subseteq db
    /\ TableOver => dtRet = "nil"

\* C10: when the caller cancelled the context while the workers of
\* DuplicateTable ran, DuplicateTable is over only by returning the
\* cancellation error, with every worker stopped.
C10_CancelReturnsCancelled ==
  (ctxCancelled /\ wk # <<>> /\ faults = MaxFaults /\ TableOver) =>
    /\ dtRet = "context canceled"
    /\ \A w \in DOMAIN wk : wk[w].pc = "done"

\* C11: a goroutine whose sendRequestToTiKV returned an error has cancelled
\* the context the goroutines of this call share; the WaitGroup counts the
\* goroutines started and not finished, so that DuplicateTable returns only
\* when all have finished; no step of DuplicateTable or of a goroutine
\* cancels the caller's context.
C11_ErrorCancelsChildScope ==
  [][/\ \A w \in DOMAIN wk' : (wk'[w].pc = "done" /\ wk'[w].ret # "nil") => rpcCancelled'
     /\ wg' = Cardinality({w \in DOMAIN wk' : wk'[w].pc # "done"})
     /\ (dtPc' = "returned" /\ wk' # <<>>) => \A w \in DOMAIN wk' : wk'[w].pc = "done"
     /\ (wk' # wk \/ dtPc' # dtPc \/ rpcCancelled' # rpcCancelled)
          => ctxCancelled' = ctxCancelled]_vars

\* a goroutine finished with an error while a peer runs: the shared context
\* is cancelled, the caller's is not
C11_Witness ==
  /\ \E w \in DOMAIN wk : wk[w].pc = "done" /\ wk[w].ret # "nil"
  /\ \E w \in DOMAIN wk : wk[w].pc \in {"start", "pass", "open", "flush", "recv"}
  /\ rpcCancelled
  /\ ~ctxCancelled
  /\ wg > 0

\* the indexes of the table that are public
PublicIndexes(t) == {i \in DOMAIN t.Indices : t.Indices[i].State = "public"}

\* the requests are built
Planned == dtPc \in {"spawn", "wait", "returned"}

\* the key ranges the requests have to cover: the rows of the table, the
\* entries of each public index
RangesToCover(t) ==
  {TableRangesToKVRanges(t.ID)[i] : i \in DOMAIN TableRangesToKVRanges(t.ID)}
    \cup {IndexRangesToKVRanges(t.ID, t.Indices[j].ID)[1] : j \in PublicIndexes(t)}

\* C12: for a table with k public indexes and p table ranges the planner
\* emits exactly p + k requests, none of them nil, each with start < end,
\* pairwise disjoint, their ranges being the row range of the table and the
\* ranges of the public indexes.
C12_PlannerEmitsExactCover ==
  Planned =>
    /\ Len(reqs) = Len(TableRangesToKVRanges(tableInfo.ID))
                     + Cardinality(PublicIndexes(tableInfo))
    /\ \A i \in DOMAIN reqs : ~reqs[i].nil /\ BytesLess(reqs[i].start, reqs[i].end)
    /\ \A i, j \in DOMAIN reqs :
         i < j => (~BytesLess(reqs[j].start, reqs[i].end)
                    \/ ~BytesLess(reqs[i].start, reqs[j].end))
    /\ {[StartKey |-> reqs[i].start, EndKey |-> reqs[i].end] : i \in DOMAIN reqs}
         = RangesToCover(tableInfo)

\* the requests emitted, the nil entries aside
RealReqs == {i \in DOMAIN reqs : ~reqs[i].nil}

\* C13: of the requests emitted, the index requests are one for each public
\* index and none for an index in another state; an index request carries
\* the descriptor of its index and its ID; a table request has indexID 0 and
\* no descriptor.
C13_OnlyPublicIndexes ==
  Planned =>
    /\ \A j \in DOMAIN tableInfo.Indices :
         Cardinality({i \in RealReqs : reqs[i].indexInfo = tableInfo.Indices[j]})
           = IF j \in PublicIndexes(tableInfo) THEN 1 ELSE 0
    /\ \A i \in RealReqs :
         \/ /\ reqs[i].indexInfo.nil
            /\ reqs[i].indexID = 0
            /\ reqs[i].start = TableRangesToKVRanges(tableInfo.ID)[1].StartKey
         \/ /\ ~reqs[i].indexInfo.nil
            /\ reqs[i].indexInfo.State = "public"
            /\ reqs[i].indexID = reqs[i].indexInfo.ID
            /\ reqs[i].indexID # 0
            /\ reqs[i].start = IndexRangesToKVRanges(tableInfo.ID, reqs[i].indexID)[1].StartKey

\* a table with a public index and an index in another state, planned
C13_Witness ==
  /\ Planned
  /\ PublicIndexes(tableInfo) # {}
  /\ PublicIndexes(tableInfo) # DOMAIN tableInfo.Indices
  /\ \E i \in RealReqs : ~reqs[i].indexInfo.nil
  /\ \E i \in RealReqs : reqs[i].indexInfo.nil

(***************************************************************************)
(* storeDuplicateData on its own: the responses of the streams of one      *)
(* request handed to it one by one, the regions in any order, a stream in  *)
(* its order; after a failure, or at any time, the request is processed    *)
(* again from the start (a replay).                                        *)
(***************************************************************************)
MaxRounds == 2

\* the requests: those built for a table with a public index
StoreReqs ==
  {r \in {buildDuplicateRequests([ID |-> 1, Indices |->
            <<[nil |-> FALSE, ID |-> 1, State |-> "public"]>>])[i] : i \in 1..4} : ~r.nil}

\* the responses the stream of each region yields for a request; a key that
\* has two versions comes twice
StoreStreams(req) ==
  IF req.indexInfo.nil
  THEN << << <<[key |-> <<1, 114, 5>>, val |-> <<50>>]>>,
             <<[key |-> <<1, 114, 5>>, val |-> <<53>>], [key |-> <<1, 114, 6>>, val |-> <<54>>]>> >>,
          << <<[key |-> <<1, 114, 200>>, val |-> <<51>>]>> >> >>
  ELSE << << <<[key |-> <<1, 105, 1, 5>>, val |-> <<52>>]>> >>,
          << <<[key |-> <<1, 105, 1, 200>>, val |-> <<55>>]>> >> >>

NoStore == [resp |-> <<>>]

StoreInit ==
  /\ CodecIdle
  /\ IterIdle
  /\ ConnIdle
  /\ RestoreIdle
  /\ SenderIdle
  /\ RetryIdle
  /\ tableInfo = [ID |-> 0, Indices |-> <<>>] /\ regionConcurrency = 0
  /\ topo = 2 /\ faults = 0 /\ alwaysRegionError = FALSE
  /\ ctxCancelled = FALSE /\ rpcCancelled = FALSE
  /\ dtPc = "idle" /\ reqs = <<>> /\ dtRet = "none" /\ tableErr = "nil"
  /\ wg = 0 /\ wk = <<>> /\ crashed = FALSE
  /\ \E req \in StoreReqs :
       sd = [phase |-> "run", req |-> req, round |-> 1, pos |-> <<0, 0>>, ok |-> TRUE,
             failed |-> FALSE, last |-> NoStore]
  /\ gv = [phase |-> "idle"]
  /\ gr = [phase |-> "idle"]

\* the next response of the stream of region r is handed to
\* storeDuplicateData
StoreCall(r) ==
  /\ sd.phase = "run"
  /\ ~sd.failed
  /\ sd.pos[r] < Len(StoreStreams(sd.req)[r])
  /\ \E commitErrs \in {0, 1, maxRetryTimes}, decodeFails \in BOOLEAN,
        get \in {"ok", "err", "keyErr"}, getCommitErrs \in {0, 1} :
       LET resp   == StoreStreams(sd.req)[r][sd.pos[r] + 1]
           region == RegionsOf(topo)[r]
           res    == storeDuplicateData(db, region, resp, sd.req, commitErrs, decodeFails,
                                        get, getCommitErrs)
       IN  /\ db' = res.db
           /\ sd' = [sd EXCEPT !.pos[r] = @ + 1,
                               !.failed = res.err # "nil",
                               !.ok = @ /\ res.err = "nil" /\ res.handles = <<>> /\ ~decodeFails,
                               !.last = [resp |-> resp, region |-> region.id,
                                         clean |-> commitErrs = 0 /\ ~decodeFails /\ get = "ok"
                                                     /\ getCommitErrs = 0,
                                         handles |-> res.handles, err |-> res.err,
                                         gets |-> res.gets, attempts |-> res.attempts,
                                         commits |-> res.commits]]
  /\ UNCHANGED <<pairs, dupDB, gv, gr>>
  /\ UNCHANGED <<codecVars, iterVars, mgrVars, connVars, restoreVars, senderVars, retryVars>>

\* the request is processed again from the start
StoreReplay ==
  /\ sd.phase = "run"
  /\ sd.round < MaxRounds
  /\ sd.last # NoStore
  /\ sd' = [sd EXCEPT !.round = @ + 1, !.pos = <<0, 0>>, !.ok = TRUE, !.failed = FALSE,
                      !.last = NoStore]
  /\ UNCHANGED <<storeVars, gv, gr>>
  /\ UNCHANGED <<codecVars, iterVars, mgrVars, connVars, restoreVars, senderVars, retryVars>>

StoreNext == (\E r \in 1..2 : StoreCall(r)) \/ StoreReplay

SpecStore == StoreInit /\ [][StoreNext]_vars

\* the request was processed to the end of every stream in this round
StoreComplete == \A r \in 1..2 : sd.pos[r] = Len(StoreStreams(sd.req)[r])

\* the pairs of all the streams of a request, a stream in its order
AllStreamed(req) ==
  StoreStreams(req)[1][1]
    \o (IF Len(StoreStreams(req)[1]) > 1 THEN StoreStreams(req)[1][2] ELSE <<>>)
    \o StoreStreams(req)[2][1]

\* the records one complete processing of a request leaves: under each key
\* streamed for a table request its last version, and the row each entry
\* streamed for an index request points at
RecordsOf(req) ==
  IF req.indexInfo.nil
  THEN {AllStreamed(req)[i] : i \in {i \in DOMAIN AllStreamed(req) :
           \A j \in DOMAIN AllStreamed(req) :
             j > i => AllStreamed(req)[j].key # AllStreamed(req)[i].key}}
  ELSE {p \in RemotePairs : \E i \in DOMAIN AllStreamed(req) :
           p.key = HandleKeyOfIndex(AllStreamed(req)[i].key)}

\* C14: for an index request, a response with one index entry that decodes
\* to a handle, with no failure, sends exactly one BatchGet whose keys are
\* exactly the row key of the handle, and commits exactly one set, under
\* that row key.
C14_OneBatchGetForHandle ==
  (/\ sd.phase = "run"
   /\ sd.last # NoStore
   /\ ~sd.req.indexInfo.nil
   /\ Len(sd.last.resp) = 1
   /\ sd.last.clean) =>
    /\ Len(sd.last.gets) = 1
    /\ sd.last.gets[1].keys = <<HandleKeyOfIndex(sd.last.resp[1].key)>>
    /\ \E i \in DOMAIN sd.last.commits :
         /\ Len(sd.last.commits[i]) = 1
         /\ sd.last.commits[i][1].key = HandleKeyOfIndex(sd.last.resp[1].key)
         /\ \A j \in DOMAIN sd.last.commits : j # i => sd.last.commits[j] = <<>>

\* C17: however often and wherever a request was processed before, and in
\* whatever order its regions come, once a round has processed it to the
\* end without failure the main DB holds exactly the records of one complete
\* processing; and at no time does it hold a record under another key, or
\* two records under one key.
C17_ReplayIsIdempotent ==
  sd.phase = "run" =>
    /\ (StoreComplete /\ sd.ok) => db = RecordsOf(sd.req)
    /\ \A e \in db : \E f \in RecordsOf(sd.req) : f.key = e.key
    /\ \A e, f \in db : e.key = f.key => e = f

\* a replay processed to the end, of a table request with a key streamed in
\* two versions
C17_Witness ==
  /\ sd.phase = "run"
  /\ sd.round = 2
  /\ StoreComplete
  /\ sd.ok
  /\ sd.req.indexInfo.nil
  /\ Cardinality(db) = 3

(***************************************************************************)
(* GetValues on its own: a list of row keys, the region map, the outcome   *)
(* of the scan, of the BatchGets and of the commits are given; one call.   *)
(***************************************************************************)
MaxHandles == 2

\* the row keys handed in: one on each side of the split key
GetKeys == {<<1, 114, 5>>, <<1, 114, 200>>}

\* the lists of handles: not empty (GetValues is called only then), in any
\* order, with repetitions
GetHandles == UNION {[1..n -> GetKeys] : n \in 1..MaxHandles}

GetInit ==
  /\ CodecIdle
  /\ IterIdle
  /\ ConnIdle
  /\ RestoreIdle
  /\ SenderIdle
  /\ RetryIdle
  /\ tableInfo = [ID |-> 0, Indices |-> <<>>] /\ regionConcurrency = 0
  /\ topo \in {1, 2} /\ faults = 0 /\ alwaysRegionError = FALSE
  /\ ctxCancelled = FALSE /\ rpcCancelled = FALSE
  /\ dtPc = "idle" /\ reqs = <<>> /\ dtRet = "none" /\ tableErr = "nil"
  /\ wg = 0 /\ wk = <<>> /\ crashed = FALSE
  /\ sd = [phase |-> "idle"]
  /\ \E handles \in GetHandles, scanFails \in BOOLEAN, get \in {"ok", "err", "keyErr"},
        commitErrs \in {0, 1} :
       gv = [phase |-> "input", handles |-> handles, scanFails |-> scanFails, get |-> get,
             commitErrs |-> commitErrs]
  /\ gr = [phase |-> "idle"]

GetValuesCall ==
  /\ gv.phase = "input"
  /\ LET res == GetValues(db, gv.handles, gv.scanFails, gv.get, gv.commitErrs)
     IN  /\ db' = res.db
         /\ gv' = [phase |-> "done", handles |-> gv.handles, scanFails |-> gv.scanFails,
                   get |-> gv.get, commitErrs |-> gv.commitErrs, out |-> res.handles,
                   hang |-> res.hang, gets |-> res.gets]
  /\ UNCHANGED <<pairs, dupDB, sd, gr>>
  /\ UNCHANGED <<codecVars, iterVars, mgrVars, connVars, restoreVars, senderVars, retryVars>>

GetNext == GetValuesCall

SpecGet == GetInit /\ [][GetNext]_vars

\* the regions of the map that hold a key of the list
RegionsOfKeys(handles) ==
  {RegionsOf(topo)[i] : i \in {i \in DOMAIN RegionsOf(topo) :
     \E k \in DOMAIN handles :
       /\ ~BytesLess(Enc(handles[k]), RegionsOf(topo)[i].start)
       /\ (RegionsOf(topo)[i].end = <<>> \/ BytesLess(Enc(handles[k]), RegionsOf(topo)[i].end))}}

\* the keys of the list that lie in a region
KeysIn(handles, region) ==
  {handles[k] : k \in {k \in DOMAIN handles :
     /\ ~BytesLess(Enc(handles[k]), region.start)
     /\ (region.end = <<>> \/ BytesLess(Enc(handles[k]), region.end))}}

\* the elements of a list
Elems(seq) == {seq[i] : i \in DOMAIN seq}

\* C15: a call of GetValues that returns, returns the whole input when the
\* scan failed; else it returns keys of the input only, none when every
\* BatchGet succeeded, and all the keys when every BatchGet failed.
C15_ReturnsFailedKeys ==
  (gv.phase = "done" /\ ~gv.hang) =>
    IF gv.scanFails THEN Elems(gv.out) = Elems(gv.handles) /\ Len(gv.out) = Len(gv.handles)
    ELSE /\ Elems(gv.out) \subseteq Elems(gv.handles)
         /\ (gv.get = "ok" /\ gv.commitErrs = 0) => gv.out = <<>>
         /\ gv.get # "ok" => Elems(gv.out) = Elems(gv.handles)

\* C16: a call of GetValues whose scan succeeded ends, having sent to each
\* region that holds keys of the list one BatchGet with exactly the keys that
\* lie in it, in ascending order, and no other BatchGet.
C16_OneBatchPerRegion ==
  (gv.phase = "done" /\ ~gv.scanFails) =>
    /\ ~gv.hang
    /\ {gv.gets[i].region : i \in DOMAIN gv.gets}
         = {r.id : r \in RegionsOfKeys(gv.handles)}
    /\ Len(gv.gets) = Cardinality(RegionsOfKeys(gv.handles))
    /\ \A i \in DOMAIN gv.gets :
         /\ \E r \in RegionsOfKeys(gv.handles) :
              r.id = gv.gets[i].region /\ Elems(gv.gets[i].keys) = KeysIn(gv.handles, r)
         /\ \A a, b \in DOMAIN gv.gets[i].keys :
              a < b => ~BytesLess(gv.gets[i].keys[b], gv.gets[i].keys[a])

(***************************************************************************)
(* getValuesFromRegion on its own: the answer to its BatchGet and the      *)
(* number of commits that fail are given; one call.                        *)
(***************************************************************************)
MaxBatchPairs == 130

\* an answer of n pairs with distinct keys
BatchPairs(n) == [i \in 1..n |-> [key |-> <<1, 114, i>>, val |-> <<i>>]]

RegionGetInit ==
  /\ CodecIdle
  /\ IterIdle
  /\ ConnIdle
  /\ RestoreIdle
  /\ SenderIdle
  /\ RetryIdle
  /\ tableInfo = [ID |-> 0, Indices |-> <<>>] /\ regionConcurrency = 0
  /\ topo = 1 /\ faults = 0 /\ alwaysRegionError = FALSE
  /\ ctxCancelled = FALSE /\ rpcCancelled = FALSE
  /\ dtPc = "idle" /\ reqs = <<>> /\ dtRet = "none" /\ tableErr = "nil"
  /\ wg = 0 /\ wk = <<>> /\ crashed = FALSE
  /\ sd = [phase |-> "idle"]
  /\ gv = [phase |-> "idle"]
  /\ \E n \in 0..MaxBatchPairs, kind \in {"ok", "err", "keyErr"},
        commitErrs \in {0, 1, 2, maxRetryTimes} :
       gr = [phase |-> "input", resp |-> [kind |-> kind, pairs |-> BatchPairs(n)],
             commitErrs |-> commitErrs]

RegionGetCall ==
  /\ gr.phase = "input"
  /\ LET handles == [i \in DOMAIN gr.resp.pairs |-> gr.resp.pairs[i].key]
         res == getValuesFromRegion(db, RegionsOf(topo)[1], handles, gr.resp, gr.commitErrs)
     IN  /\ db' = res.db
         /\ gr' = [phase |-> "done", resp |-> gr.resp, commitErrs |-> gr.commitErrs,
                   err |-> res.err, n |-> res.n, commits |-> res.commits]
  /\ UNCHANGED <<pairs, dupDB, sd, gv>>
  /\ UNCHANGED <<codecVars, iterVars, mgrVars, connVars, restoreVars, senderVars, retryVars>>

RegionGetNext == RegionGetCall

SpecRegionGet == RegionGetInit /\ [][RegionGetNext]_vars

\* C18: a call of getValuesFromRegion whose BatchGet succeeded and whose
\* commits fail fewer than maxRetryTimes times returns nil with every pair of
\* the answer written; a call that returns an error made maxRetryTimes
\* commits that failed.
C18_CommitRetriedUpToMax ==
  (gr.phase = "done" /\ gr.resp.kind = "ok") =>
    /\ gr.commitErrs < maxRetryTimes =>
         /\ gr.err = "nil"
         /\ \A i \in DOMAIN gr.resp.pairs : gr.resp.pairs[i] \in db
    /\ gr.err # "nil" => gr.n - Len(gr.commits) >= maxRetryTimes

\* C19: no commit of getValuesFromRegion holds more than maxWriteBatchCount
\* sets.
C19_CommitWithinBatchCount ==
  gr.phase = "done" =>
    \A i \in DOMAIN gr.commits : Len(gr.commits[i]) <= maxWriteBatchCount

\* C20: the workers that hold a request and have not finished are never more
\* than regionConcurrency.
C20_WorkersWithinConcurrency ==
  dtPc \in {"spawn", "wait", "returned"} =>
    Cardinality({w \in DOMAIN wk : ~wk[w].req.nil /\ wk[w].pc \notin {"done", "panicked"}})
      <= regionConcurrency

(***************************************************************************)
(* Duplicate iterator at its boundaries.                                   *)
(***************************************************************************)
\* C24: on an empty main DB First() and Last() return false, the iterator
\* is not valid and the duplicates DB stays empty; on a main DB whose
\* entries all share one user key, the traversal from First() shows exactly
\* one entry, of that key, however many entries there are.
C24_EmptyAndSingleGroup ==
  /\ (itPhase = "iter" /\ itOp \in {"First", "Last"} /\ db = {}) =>
       /\ ~itRet
       /\ ~DupIterValid
       /\ dupDB = {}
  /\ (itPhase = "iter" /\ itFwd /\ itOp \in {"First", "Next"}
        /\ Cardinality(UserKeys) = 1) =>
       /\ Len(itTrav) = 1
       /\ {itTrav[1]} = UserKeys
       /\ itOp = "Next" => ~itRet /\ ~DupIterValid

\* a main DB of three entries under one user key, traversed to the end
C24_Witness ==
  /\ itPhase = "iter" /\ itFwd /\ itOp = "Next"
  /\ Cardinality(UserKeys) = 1
  /\ Cardinality(db) = 3
  /\ ~itRet

(***************************************************************************)
(* Connection manager (Mgr): a map from store to connection under one      *)
(* mutex. Callers call GetBackupClient, ResetBackupClient and Close in any *)
(* order and at the same time; a dial fails when the cluster lets it, at   *)
(* most MaxDialFaults times in a run.                                      *)
(***************************************************************************)
NumCallers == 2

MaxCalls == 3

MaxDialFaults == 3

resetRetryTimes == 3

Stores == {1, 2}

\* the last call that ran on a store: none yet
NoOp == [op |-> "none", conn |-> 0, resets |-> 0]

\* a caller that made no call yet; of a call: the store, the cache entry at
\* its start and the one found under the mutex, the dials made, the sleeps
\* taken, the connection of the client returned (0: none), the error
NoCall ==
  [pc |-> "idle", op |-> "none", store |-> 0, atBegin |-> 0, found |-> 0, retry |-> 0,
   attempts |-> 0, sleeps |-> <<>>, ret |-> 0, err |-> "nil", prev |-> NoOp]

\* whether a dial made now succeeds
DialOutcomes == IF dialFaults > 0 THEN {TRUE, FALSE} ELSE {TRUE}

\* getGrpcConnLocked(ctx, storeID): the dial is made; the connection is the
\* number of the dial
getGrpcConnLocked(storeID, ok) ==
  [dialed |-> Append(dialed, [store |-> storeID, ok |-> ok, closed |-> 0]),
   conn   |-> IF ok THEN Len(dialed) + 1 ELSE 0,
   err    |-> IF ok THEN "nil" ELSE "failed to make connection"]

\* mutant: the sleep after a failed dial does not grow
ResetSleep_Fixed(retry) == 3

\* time.Duration(retry+3) * time.Second
ResetSleep(retry) == retry + 3

\* a caller begins a call: the context is checked, then the mutex is asked
CallBegin(p) ==
  /\ calls[p].pc = "idle"
  /\ ncalls < MaxCalls
  /\ ncalls' = ncalls + 1
  /\ \E op \in {"Get", "Reset", "Close"}, s \in Stores, ctxErr \in BOOLEAN :
       /\ op = "Close" => (s = 1 /\ ~ctxErr)
       /\ calls' = [calls EXCEPT ![p] =
                      [NoCall EXCEPT !.op = op,
                                     !.store = IF op = "Close" THEN 0 ELSE s,
                                     !.atBegin = IF op = "Close" THEN 0 ELSE clis[s],
                                     !.pc = IF ctxErr THEN "idle" ELSE "lock",
                                     !.err = IF ctxErr THEN "context canceled" ELSE "nil"]]
  /\ UNCHANGED <<clis, mu, dialed, dialFaults, lastOp, pdClosed>>
  /\ UNCHANGED <<codecVars, storeVars, iterVars, mgrVars, callVars, restoreVars, senderVars, retryVars>>

\* mutant: the mutex excludes nobody
Lock_NoExclusion(p) ==
  /\ calls[p].pc = "lock"
  /\ mu' = p
  /\ calls' = [calls EXCEPT ![p].pc = "locked",
                            ![p].prev = IF calls[p].op = "Close" THEN NoOp
                                        ELSE lastOp[calls[p].store]]
  /\ UNCHANGED <<clis, dialed, ncalls, dialFaults, lastOp, pdClosed>>
  /\ UNCHANGED <<codecVars, storeVars, iterVars, mgrVars, callVars, restoreVars, senderVars, retryVars>>

\* mgr.grpcClis.mu.Lock()
Lock(p) ==
  /\ calls[p].pc = "lock"
  /\ mu = 0
  /\ mu' = p
  /\ calls' = [calls EXCEPT ![p].pc = "locked",
                            ![p].prev = IF calls[p].op = "Close" THEN NoOp
                                        ELSE lastOp[calls[p].store]]
  /\ UNCHANGED <<clis, dialed, ncalls, dialFaults, lastOp, pdClosed>>
  /\ UNCHANGED <<codecVars, storeVars, iterVars, mgrVars, callVars, restoreVars, senderVars, retryVars>>

\* GetBackupClient under the mutex: the cached connection is returned, or
\* the dial is started
GetBackupClient(p) ==
  /\ calls[p].pc = "locked"
  /\ calls[p].op = "Get"
  /\ LET s == calls[p].store
     IN  IF clis[s] # 0
         THEN /\ calls' = [calls EXCEPT ![p].pc = "idle", ![p].found = clis[s],
                                        ![p].ret = clis[s]]
              /\ mu' = 0
              /\ lastOp' = [lastOp EXCEPT ![s].op = "Get", ![s].conn = clis[s]]
         ELSE /\ calls' = [calls EXCEPT ![p].pc = "dial"]
              /\ UNCHANGED <<mu, lastOp>>
  /\ UNCHANGED <<clis, dialed, ncalls, dialFaults, pdClosed>>
  /\ UNCHANGED <<codecVars, storeVars, iterVars, mgrVars, callVars, restoreVars, senderVars, retryVars>>

\* GetBackupClient, the dial: the connection is cached, or the error returned
GetDial(p) ==
  /\ calls[p].pc = "dial"
  /\ \E ok \in DialOutcomes :
       LET s == calls[p].store
           d == getGrpcConnLocked(s, ok)
       IN  /\ dialed' = d.dialed
           /\ dialFaults' = IF ok THEN dialFaults ELSE dialFaults - 1
           /\ clis' = IF ok THEN [clis EXCEPT ![s] = d.conn] ELSE clis
           /\ calls' = [calls EXCEPT ![p].pc = "idle", ![p].attempts = 1,
                                     ![p].ret = d.conn, ![p].err = d.err]
           /\ lastOp' = [lastOp EXCEPT ![s].op = "Get", ![s].conn = d.conn]
  /\ mu' = 0
  /\ UNCHANGED <<ncalls, pdClosed>>
  /\ UNCHANGED <<codecVars, storeVars, iterVars, mgrVars, callVars, restoreVars, senderVars, retryVars>>

\* ResetBackupClient under the mutex: the cached connection is closed and
\* its entry deleted
ResetBackupClient(p) ==
  /\ calls[p].pc = "locked"
  /\ calls[p].op = "Reset"
  /\ LET s == calls[p].store
     IN  /\ dialed' = IF clis[s] # 0 THEN [dialed EXCEPT ![clis[s]].closed = @ + 1]
                      ELSE dialed
         /\ clis' = [clis EXCEPT ![s] = 0]
         /\ calls' = [calls EXCEPT ![p].pc = "redial", ![p].found = clis[s], ![p].retry = 0]
  /\ UNCHANGED <<mu, ncalls, dialFaults, lastOp, pdClosed>>
  /\ UNCHANGED <<codecVars, storeVars, iterVars, mgrVars, callVars, restoreVars, senderVars, retryVars>>

\* ResetBackupClient, one round of its loop, or its return after the loop
ResetDial(p) ==
  /\ calls[p].pc = "redial"
  /\ LET s == calls[p].store
         c == calls[p]
     IN  IF c.retry < resetRetryTimes
         THEN \E ok \in DialOutcomes :
                LET d == getGrpcConnLocked(s, ok)
                IN  /\ dialed' = d.dialed
                    /\ dialFaults' = IF ok THEN dialFaults ELSE dialFaults - 1
                    /\ clis' = IF ok THEN [clis EXCEPT ![s] = d.conn] ELSE clis
                    /\ calls' = [calls EXCEPT ![p] =
                                   IF ok
                                   THEN [c EXCEPT !.pc = "idle", !.attempts = @ + 1,
                                                  !.ret = d.conn, !.err = "nil"]
                                   ELSE [c EXCEPT !.attempts = @ + 1, !.err = d.err,
                                                  !.sleeps = Append(@, ResetSleep(c.retry)),
                                                  !.retry = @ + 1]]
                    /\ mu' = IF ok THEN 0 ELSE mu
                    /\ lastOp' = IF ok
                                 THEN [lastOp EXCEPT ![s].op = "Reset", ![s].conn = d.conn,
                                                     ![s].resets = @ + 1]
                                 ELSE lastOp
         ELSE /\ calls' = [calls EXCEPT ![p].pc = "idle"]
              /\ mu' = 0
              /\ lastOp' = [lastOp EXCEPT ![s].op = "Reset", ![s].conn = 0,
                                          ![s].resets = @ + 1]
              /\ UNCHANGED <<dialed, dialFaults, clis>>
  /\ UNCHANGED <<ncalls, pdClosed>>
  /\ UNCHANGED <<codecVars, storeVars, iterVars, mgrVars, callVars, restoreVars, senderVars, retryVars>>

\* Close: every cached connection is closed under the mutex, then the PD
\* controller
Close(p) ==
  /\ calls[p].pc = "locked"
  /\ calls[p].op = "Close"
  /\ dialed' = [i \in DOMAIN dialed |->
                  IF \E s \in Stores : clis[s] = i
                  THEN [dialed[i] EXCEPT !.closed = @ + 1] ELSE dialed[i]]
  /\ mu' = 0
  /\ pdClosed' = pdClosed + 1
  /\ calls' = [calls EXCEPT ![p].pc = "idle"]
  /\ lastOp' = [s \in Stores |-> [lastOp[s] EXCEPT !.op = "Close", !.conn = clis[s]]]
  /\ UNCHANGED <<clis, ncalls, dialFaults>>
  /\ UNCHANGED <<codecVars, storeVars, iterVars, mgrVars, callVars, restoreVars, senderVars, retryVars>>

ConnInit ==
  /\ CodecIdle
  /\ IterIdle
  /\ MgrIdle
  /\ CallIdle
  /\ RestoreIdle
  /\ SenderIdle
  /\ RetryIdle
  /\ clis = [s \in Stores |-> 0]
  /\ mu = 0
  /\ dialed = <<>>
  /\ calls = [p \in 1..NumCallers |-> NoCall]
  /\ ncalls = 0
  /\ dialFaults = MaxDialFaults
  /\ lastOp = [s \in Stores |-> NoOp]
  /\ pdClosed = 0

ConnNext ==
  \/ \E p \in DOMAIN calls : CallBegin(p)
  \/ \E p \in DOMAIN calls : Lock(p)
  \/ \E p \in DOMAIN calls : GetBackupClient(p)
  \/ \E p \in DOMAIN calls : GetDial(p)
  \/ \E p \in DOMAIN calls : ResetBackupClient(p)
  \/ \E p \in DOMAIN calls : ResetDial(p)
  \/ \E p \in DOMAIN calls : Close(p)

SpecConn == ConnInit /\ [][ConnNext]_vars

\* the connections dialed with success to a store, all the dials made to it
ConnsOf(s) == {i \in DOMAIN dialed : dialed[i].store = s /\ dialed[i].ok}

DialsOf(s) == {i \in DOMAIN dialed : dialed[i].store = s}

\* the last call of caller p was of this kind, passed the check of its
\* context and has returned
Returned(p, op) ==
  calls[p].pc = "idle" /\ calls[p].op = op /\ calls[p].err # "context canceled"

\* C21: while a store was not reset, the calls of GetBackupClient for it,
\* in whatever order they ran, made at most one dial that succeeded, and one
\* dial in all when none failed, and every call that got a client got it
\* over that connection; a call dials once when it finds no entry under the
\* mutex and not at all when it finds one; a reset that succeeded made one
\* dial that succeeded, after its failed ones, and the call of
\* GetBackupClient that follows it dials not at all and gets the connection
\* of the reset.
C21_OneSuccessfulDial ==
  /\ \A s \in Stores :
       lastOp[s].resets = 0
         => /\ Cardinality(ConnsOf(s)) <= 1
            /\ Cardinality(DialsOf(s)) <= 1 + (MaxDialFaults - dialFaults)
            /\ \A p \in DOMAIN calls :
                 (Returned(p, "Get") /\ calls[p].store = s /\ calls[p].err = "nil") =>
                   ConnsOf(s) = {calls[p].ret}
  /\ \A p \in DOMAIN calls :
       /\ Returned(p, "Get") =>
            /\ calls[p].attempts = (IF calls[p].found = 0 THEN 1 ELSE 0)
            /\ calls[p].found # 0 => calls[p].ret = calls[p].found /\ calls[p].err = "nil"
            /\ calls[p].err = "nil" =>
                 /\ calls[p].ret \in ConnsOf(calls[p].store)
                 /\ calls[p].ret \in DOMAIN dialed
       /\ (Returned(p, "Reset") /\ calls[p].err = "nil") =>
            /\ calls[p].ret \in ConnsOf(calls[p].store)
            /\ calls[p].attempts = Len(calls[p].sleeps) + 1
       /\ (Returned(p, "Get") /\ calls[p].prev.op = "Reset" /\ calls[p].prev.conn # 0)
            => /\ calls[p].attempts = 0
               /\ calls[p].err = "nil"
               /\ calls[p].ret = calls[p].prev.conn

\* two calls of GetBackupClient for one store, both begun while the store
\* had no entry: one dialed, the other did not, both hold the same connection
C21_Witness ==
  /\ Returned(1, "Get") /\ Returned(2, "Get")
  /\ calls[1].store = calls[2].store
  /\ calls[1].atBegin = 0 /\ calls[2].atBegin = 0
  /\ calls[1].attempts + calls[2].attempts = 1
  /\ calls[1].ret = calls[2].ret /\ calls[1].ret # 0

\* C22: a call of ResetBackupClient that holds the mutex has closed the
\* connection it found and deleted its entry; it dials at most
\* resetRetryTimes times, and after its i-th failed dial it slept i + 2
\* seconds; while it retries the store has no entry; it returns at the first
\* dial that succeeds, with that connection cached; after resetRetryTimes
\* failed dials it returns the error of the last, and the store has no
\* entry, until another call takes the mutex.
C22_ResetRedialsThenGivesUp ==
  /\ \A p \in DOMAIN calls :
       (calls[p].op = "Reset" /\ (calls[p].pc = "redial" \/ Returned(p, "Reset"))) =>
         LET c == calls[p]
             failed == c.attempts - (IF c.ret # 0 THEN 1 ELSE 0)
         IN  /\ c.found # 0 => dialed[c.found].closed >= 1 /\ clis[c.store] # c.found
             /\ c.attempts <= resetRetryTimes
             /\ c.sleeps = [i \in 1..failed |-> i + 2]
             /\ c.pc = "redial" => c.ret = 0 /\ clis[c.store] = 0
             /\ (c.pc = "idle" /\ c.err = "nil") =>
                  /\ dialed[c.ret].ok /\ dialed[c.ret].store = c.store
                  /\ \A j \in 1..(c.attempts - 1) :
                       ~dialed[c.ret - j].ok /\ dialed[c.ret - j].store = c.store
             /\ (c.pc = "idle" /\ c.err # "nil") =>
                  /\ c.attempts = resetRetryTimes
                  /\ failed = resetRetryTimes
                  /\ c.ret = 0
  /\ \A s \in Stores :
       (mu = 0 /\ lastOp[s].op = "Reset") => clis[s] = lastOp[s].conn

\* a reset that found a connection, closed it, and gave up after three
\* failed dials
C22_Witness ==
  \E p \in DOMAIN calls :
    /\ Returned(p, "Reset")
    /\ calls[p].found # 0
    /\ calls[p].err # "nil"
    /\ calls[p].sleeps = <<3, 4, 5>>
    /\ clis[calls[p].store] = 0

\* C23: after Close every cached connection is closed, and no connection is
\* closed more than once, however often Close is called.
C23_CloseIdempotent ==
  /\ \A i \in DOMAIN dialed : dialed[i].closed <= 1
  /\ \A s \in Stores :
       (lastOp[s].op = "Close" /\ clis[s] # 0) => dialed[clis[s]].closed >= 1

(***************************************************************************)
(* RestoreTable: one engine of the importer is opened, fed the files of    *)
(* the table by one goroutine per file, closed, imported and cleaned up.   *)
(* A request fails when rc.ctx is cancelled; otherwise it fails when the   *)
(* importer lets it, at most MaxRestoreFaults times in a run.              *)
(***************************************************************************)
MaxFiles == 2

MaxRestoreFaults == 1

\* whether a request made now fails
RestoreFails ==
  IF rtCtxDone THEN {TRUE} ELSE IF rtFaults > 0 THEN {FALSE, TRUE} ELSE {FALSE}

\* what a failed request takes from the budget
RestoreCost(fails) == IF fails /\ ~rtCtxDone THEN 1 ELSE 0

\* a request of RestoreTable itself to the importer, sent and answered
EngineCall(op, fails) ==
  <<[op |-> op, file |-> 0, ev |-> "issue"],
    [op |-> op, file |-> 0, ev |-> IF fails THEN "fail" ELSE "ok"]>>

\* return after errCh was made: the deferred close(errCh) runs
RestoreReturn(ret) ==
  /\ rtPc' = "returned"
  /\ rtRet' = ret
  /\ errChClosed' = TRUE

\* RestoreTable, one step of it
RestoreTable ==
  /\ ~rtCrashed
  /\ rtPc \in {"create", "open", "spawn", "collect", "close", "import", "cleanup", "analyze"}
  /\ rtPc = "collect" => rtIdx = rtFiles
  /\ \E fails \in (IF rtPc \in {"spawn", "collect"} THEN {FALSE} ELSE RestoreFails) :
       /\ rtFaults' = rtFaults - RestoreCost(fails)
       /\ CASE rtPc = "create" ->
                 /\ rtPc' = IF fails THEN "returned" ELSE "open"
                 /\ rtRet' = IF fails THEN "create table failed" ELSE rtRet
                 /\ UNCHANGED <<file, rtIdx, rtGo, returnErr, errChClosed, rtLog>>
            [] rtPc = "open" ->
                 /\ rtLog' = rtLog \o EngineCall("OpenEngine", fails)
                 /\ rtPc' = IF fails THEN "returned" ELSE "spawn"
                 /\ rtRet' = IF fails THEN "open engine failed" ELSE rtRet
                 /\ returnErr' = IF fails THEN "open engine failed" ELSE "nil"
                 /\ rtIdx' = 1
                 /\ UNCHANGED <<file, rtGo, errChClosed>>
            [] rtPc = "spawn" ->
                 IF rtIdx > rtFiles
                 THEN /\ rtPc' = "collect"
                      /\ rtIdx' = 0
                      /\ UNCHANGED <<file, rtGo, returnErr, rtRet, errChClosed, rtLog>>
                 ELSE /\ file' = rtIdx
                      /\ IF rtCtxDone
                         THEN /\ RestoreReturn("nil")
                              /\ UNCHANGED <<rtIdx, rtGo>>
                         ELSE /\ rtGo' = Append(rtGo, [pc |-> "start", file |-> 0])
                              /\ rtIdx' = rtIdx + 1
                              /\ UNCHANGED <<rtPc, rtRet, errChClosed>>
                      /\ UNCHANGED <<returnErr, rtLog>>
            [] rtPc = "collect" ->
                 /\ IF returnErr # "nil"
                    THEN RestoreReturn(returnErr)
                    ELSE rtPc' = "close" /\ UNCHANGED <<rtRet, errChClosed>>
                 /\ UNCHANGED <<file, rtIdx, rtGo, returnErr, rtLog>>
            [] rtPc = "close" ->
                 /\ rtLog' = rtLog \o EngineCall("CloseEngine", fails)
                 /\ returnErr' = IF fails THEN "close engine failed" ELSE "nil"
                 /\ IF fails THEN RestoreReturn("close engine failed")
                    ELSE rtPc' = "import" /\ UNCHANGED <<rtRet, errChClosed>>
                 /\ UNCHANGED <<file, rtIdx, rtGo>>
            [] rtPc = "import" ->
                 /\ rtLog' = rtLog \o EngineCall("ImportEngine", fails)
                 /\ returnErr' = IF fails THEN "import engine failed" ELSE "nil"
                 /\ IF fails THEN RestoreReturn("import engine failed")
                    ELSE rtPc' = "cleanup" /\ UNCHANGED <<rtRet, errChClosed>>
                 /\ UNCHANGED <<file, rtIdx, rtGo>>
            [] rtPc = "cleanup" ->
                 /\ rtLog' = rtLog \o EngineCall("CleanupEngine", fails)
                 /\ returnErr' = IF fails THEN "cleanup engine failed" ELSE "nil"
                 /\ IF fails THEN RestoreReturn("cleanup engine failed")
                    ELSE rtPc' = "analyze" /\ UNCHANGED <<rtRet, errChClosed>>
                 /\ UNCHANGED <<file, rtIdx, rtGo>>
            [] rtPc = "analyze" ->
                 /\ returnErr' = IF fails THEN "analyze table failed" ELSE "nil"
                 /\ RestoreReturn(IF fails THEN "analyze table failed" ELSE "nil")
                 /\ UNCHANGED <<file, rtIdx, rtGo, rtLog>>
  /\ UNCHANGED <<rtFiles, rtCtxDone, rtCrashed>>
  /\ UNCHANGED <<codecVars, storeVars, iterVars, mgrVars, callVars, connVars, senderVars,
                 retryVars>>

\* what a step of a goroutine leaves alone
RestoreGoFrame ==
  /\ UNCHANGED <<rtPc, rtFiles, file, rtRet, errChClosed, rtCtxDone>>
  /\ UNCHANGED <<codecVars, storeVars, iterVars, mgrVars, callVars, connVars, senderVars,
                 retryVars>>

\* the goroutine builds its request from the loop variable file, as it is
\* now, and sends it
GoRestoreFile(g) ==
  /\ ~rtCrashed
  /\ rtGo[g].pc = "start"
  /\ rtGo' = [rtGo EXCEPT ![g].pc = "call", ![g].file = file]
  /\ rtLog' = Append(rtLog, [op |-> "RestoreFile", file |-> file, ev |-> "issue"])
  /\ UNCHANGED <<rtIdx, returnErr, rtFaults, rtCrashed>>
  /\ RestoreGoFrame

\* the importer answers the request of a goroutine
GoReply(g) ==
  /\ ~rtCrashed
  /\ rtGo[g].pc = "call"
  /\ \E fails \in RestoreFails :
       /\ rtFaults' = rtFaults - RestoreCost(fails)
       /\ rtGo' = [rtGo EXCEPT ![g].pc = IF fails THEN "senderr" ELSE "sendnil"]
       /\ rtLog' = Append(rtLog, [op |-> "RestoreFile", file |-> rtGo[g].file,
                                  ev |-> IF fails THEN "fail" ELSE "ok"])
  /\ UNCHANGED <<rtIdx, returnErr, rtCrashed>>
  /\ RestoreGoFrame

\* err := <-errCh in RestoreTable meets errCh <- ... in a goroutine; a
\* goroutine that sent its error goes on to send nil
RecvErrCh(g) ==
  /\ ~rtCrashed
  /\ rtPc = "collect"
  /\ rtIdx < rtFiles
  /\ ~errChClosed
  /\ rtGo[g].pc \in {"senderr", "sendnil"}
  /\ rtIdx' = rtIdx + 1
  /\ returnErr' = IF rtGo[g].pc = "senderr" THEN "restore file failed" ELSE returnErr
  /\ rtGo' = [rtGo EXCEPT ![g].pc = IF rtGo[g].pc = "senderr" THEN "sendnil" ELSE "done"]
  /\ UNCHANGED <<rtLog, rtFaults, rtCrashed>>
  /\ RestoreGoFrame

\* errCh <- ... on the closed channel: the goroutine panics
SendOnClosed(g) ==
  /\ ~rtCrashed
  /\ errChClosed
  /\ rtGo[g].pc \in {"senderr", "sendnil"}
  /\ rtCrashed' = TRUE
  /\ rtGo' = [rtGo EXCEPT ![g].pc = "panicked"]
  /\ UNCHANGED <<rtIdx, returnErr, rtLog, rtFaults>>
  /\ RestoreGoFrame

\* rc.cancel(): the context of the client is cancelled
RestoreCancel ==
  /\ ~rtCrashed
  /\ rtPc # "returned"
  /\ ~rtCtxDone
  /\ rtCtxDone' = TRUE
  /\ UNCHANGED <<rtPc, rtFiles, file, rtIdx, rtGo, returnErr, rtRet, errChClosed, rtLog,
                 rtFaults, rtCrashed>>
  /\ UNCHANGED <<codecVars, storeVars, iterVars, mgrVars, callVars, connVars, senderVars,
                 retryVars>>

RestoreInit ==
  /\ CodecIdle
  /\ IterIdle
  /\ MgrIdle
  /\ CallIdle
  /\ ConnIdle
  /\ SenderIdle
  /\ RetryIdle
  /\ rtPc = "create"
  /\ rtFiles \in 0..MaxFiles
  /\ file = 0
  /\ rtIdx = 0
  /\ rtGo = <<>>
  /\ returnErr = "nil"
  /\ rtRet = "none"
  /\ errChClosed = FALSE
  /\ rtLog = <<>>
  /\ rtCtxDone = FALSE
  /\ rtFaults \in 0..MaxRestoreFaults
  /\ rtCrashed = FALSE

RestoreNext ==
  \/ RestoreTable
  \/ \E g \in DOMAIN rtGo : GoRestoreFile(g)
  \/ \E g \in DOMAIN rtGo : GoReply(g)
  \/ \E g \in DOMAIN rtGo : RecvErrCh(g)
  \/ \E g \in DOMAIN rtGo : SendOnClosed(g)
  \/ RestoreCancel

SpecRestore == RestoreInit /\ [][RestoreNext]_vars

\* the place of a request in the life of an engine
StepOf(op) ==
  CASE op = "OpenEngine" -> 1
    [] op = "RestoreFile" -> 2
    [] op = "CloseEngine" -> 3
    [] op = "ImportEngine" -> 4
    [] op = "CleanupEngine" -> 5

\* before the i-th event the step was completed with success: for
\* RestoreFile, for every file of the table
StepDone(step, i) ==
  IF step = 2
  THEN \A f \in 1..rtFiles :
         \E j \in 1..(i - 1) :
           rtLog[j].op = "RestoreFile" /\ rtLog[j].file = f /\ rtLog[j].ev = "ok"
  ELSE \E j \in 1..(i - 1) : StepOf(rtLog[j].op) = step /\ rtLog[j].ev = "ok"

\* C25: a request is sent to the importer only when every earlier step of
\* the engine was completed with success, RestoreFile for every file of the
\* table; no request is sent twice for the engine, RestoreFile not twice for
\* a file; after a request failed no request of a later step is sent.
C25_EngineStepsInOrder ==
  \A i \in DOMAIN rtLog :
    rtLog[i].ev = "issue" =>
      /\ \A step \in 1..(StepOf(rtLog[i].op) - 1) : StepDone(step, i)
      /\ \A j \in 1..(i - 1) :
           /\ (rtLog[j].ev = "issue" /\ rtLog[j].op = rtLog[i].op)
                => rtLog[j].file # rtLog[i].file
           /\ rtLog[j].ev = "fail" => StepOf(rtLog[j].op) >= StepOf(rtLog[i].op)

(***************************************************************************)
(* sendRequestToTiKV: the passes over the regions of a request.            *)
(***************************************************************************)
\* the entries of a list of regions, of clients, that are not nil
RealRegions(rs) == {rs[i] : i \in {i \in DOMAIN rs : ~rs[i].nil}}

RealClients(cs) == {i \in DOMAIN cs : ~cs[i].nil}

\* every region of the pass of worker state s was deferred
AllDeferred(s) ==
  \A r \in RealRegions(s.regions) :
    \E u \in RealRegions(s.unfinishedRegions) : u.id = r.id

\* the loop that opens the streams of a pass is over and the pass is not
InPass(s) == s.pc \in {"flush", "recv"}

\* C26: a pass of sendRequestToTiKV ends by going to the next pass, or by
\* the return of a fatal error; when it goes to the next pass the retry
\* counter is one more if every region of the pass was deferred and is
\* unchanged otherwise.
C26_RetryCountsPassesWithoutProgress ==
  [][\A w \in DOMAIN wk :
       (InPass(wk[w]) /\ ~InPass(wk'[w])) =>
         /\ wk'[w].pc \in {"pass", "exit"}
         /\ wk'[w].pc = "pass" =>
              wk'[w].tryTimes = wk[w].tryTimes + (IF AllDeferred(wk[w]) THEN 1 ELSE 0)]_vars

\* C27: when the streams of a pass are opened, they are at most
\* regionConcurrency, every region of the pass has a stream or is in the list
\* of the next pass, and that list holds regions only, no nil entry.
C27_CapDefersTheRest ==
  \A w \in DOMAIN wk :
    InPass(wk[w]) =>
      /\ Cardinality(RealClients(wk[w].waitingClients)) <= regionConcurrency
      /\ \A r \in RealRegions(wk[w].regions) :
           \/ r \in RealRegions(wk[w].watingRegions)
           \/ \E u \in RealRegions(wk[w].unfinishedRegions) : u.id = r.id
      /\ \A i \in DOMAIN wk[w].unfinishedRegions : ~wk[w].unfinishedRegions[i].nil

\* worker w is past the i-th stream of its pass: it reads a later one, or
\* the pass, or the worker, is over
PastStream(w, i) ==
  \/ wk[w].pc = "recv" /\ wk[w].idx > i
  \/ wk[w].pc \in {"pass", "exit", "done", "panicked", "hang"}

\* C28: when every stream answers with a RegionError and nothing else goes
\* wrong, a worker that is past a stream it opened has stored no pair of it
\* and has deferred every region that a scan of the stream's region returns.
C28_RegionErrorDefersRescan ==
  \A w \in DOMAIN wk :
    (alwaysRegionError /\ Undisturbed(w)) =>
      \A i \in RealClients(wk[w].waitingClients) :
        PastStream(w, i) =>
          /\ wk[w].waitingClients[i].sent = 0
          /\ \A r \in RealRegions(paginateScanRegion(wk[w].watingRegions[i].start,
                                                     wk[w].watingRegions[i].end)) :
               r \in RealRegions(wk[w].unfinishedRegions)

\* the pairs of a stream were all received
ReadToEnd(cli) == cli.sent = Len(StreamPairs(cli.region, cli.start, cli.end))

\* how often a region is in a list
TimesIn(rs, id) == Cardinality({i \in DOMAIN rs : ~rs[i].nil /\ rs[i].id = id})

\* C29: when the region map does not change, a worker that is past a stream
\* it opened has either read the stream to its end, and then the region is
\* not deferred, or has deferred the region once, having stopped reading at
\* the error.
C29_ErrorDefersOnceEofNot ==
  \A w \in DOMAIN wk :
    (topo = 1 /\ ~alwaysRegionError /\ ~wk[w].req.nil) =>
      \A i \in RealClients(wk[w].waitingClients) :
        (PastStream(w, i) /\ wk[w].pc # "exit" /\ wk[w].pc # "done") =>
          LET cli == wk[w].waitingClients[i]
              n   == TimesIn(wk[w].unfinishedRegions, cli.region.id)
          IN  \/ ReadToEnd(cli) /\ n = 0
              \/ n = 1

\* the region of the cluster's map with this id
FreshRegion(id) == CHOOSE r \in RealRegions(RegionsOf(topo)) : r.id = id

C38_CachedConnsOpen ==
  mu = 0 =>
    /\ \A s \in Stores : clis[s] # 0 => dialed[clis[s]].closed = 0
    /\ \A s \in Stores :
         (lastOp[s].op = "Get" /\ lastOp[s].conn # 0) =>
           dialed[lastOp[s].conn].closed = 0

(***************************************************************************)
(* errCh of RestoreTable: one message for each goroutine.                  *)
(***************************************************************************)
\* C40: no goroutine of RestoreTable sends on errCh after it is closed, and
\* when RestoreTable has returned every goroutine it started has sent its
\* one message and is over, none being left to send.
C40_OneMessagePerGoroutine ==
  /\ ~rtCrashed
  /\ \A g \in DOMAIN rtGo : rtGo[g].pc # "panicked"
  /\ rtPc = "returned" => \A g \in DOMAIN rtGo : rtGo[g].pc = "done"

(***************************************************************************)
(* The bounds of a stream: the region's range cut to the request's.        *)
(***************************************************************************)
\* the start and end keys of a region, decoded; the end key is meaningless
\* when the region has none
RegionStartKey(region) ==
  IF region.start = <<>> THEN <<>> ELSE DecodeBytes(region.start, MakeSlice(0, 0)).key

RegionEndKey(region) ==
  IF region.end = <<>> THEN <<>> ELSE DecodeBytes(region.end, MakeSlice(0, 0)).key

C32_OnePathPerRequestKind ==
  (sd.phase = "run" /\ sd.last # NoStore /\ sd.last.err = "nil") =>
    IF sd.req.indexInfo.nil
    THEN /\ sd.last.commits[1] = sd.last.resp
         /\ sd.last.gets = <<>>
    ELSE /\ sd.last.commits[1] = <<>>
         /\ \A g \in DOMAIN sd.last.gets :
              /\ Elems(sd.last.gets[g].keys)
                   \subseteq {HandleKeyOfIndex(sd.last.resp[i].key) :
                                i \in DOMAIN sd.last.resp}
              /\ sd.last.clean =>
                   sd.last.gets[g].keys
                     = [i \in DOMAIN sd.last.resp |-> HandleKeyOfIndex(sd.last.resp[i].key)]

(***************************************************************************)
(* GetValues: the loop over the keys of a region.                          *)
(***************************************************************************)
\* C35: every call of GetValues returns, having sent at most one BatchGet
\* for each region of its scan.
C35_GetValuesTerminates ==
  gv.phase = "done" =>
    /\ ~gv.hang
    /\ Len(gv.gets) <= Len(paginateScanRegion(Enc(SortHandles(gv.handles)[1]),
                                              Enc(SortHandles(gv.handles)[Len(gv.handles)])))

(***************************************************************************)
(* The row keys a worker has still to fetch.                               *)
(***************************************************************************)
\* C33: the keys a worker is about to pass to GetValues are row keys, none
\* of them nil, and a worker that returned success has no row key left to
\* fetch.
C33_PendingHandlesRetried ==
  \A w \in DOMAIN wk :
    /\ wk[w].pc = "flush" =>
         \A i \in DOMAIN wk[w].indexHandles : wk[w].indexHandles[i] # <<>>
    /\ (wk[w].pc \in {"exit", "done"} /\ wk[w].ret = "nil") => wk[w].indexHandles = <<>>

(***************************************************************************)
(* utils.WithRetry: an operation retried under a backoff policy.           *)
(***************************************************************************)
MaxAttempts == 3

\* what retryableFunc can return: nil or one of two errors
RetryErrs == {"nil", "e1", "e2"}

\* Backoffer.NextBackoff(err): the policy takes from the attempts that
\* remain, one or more
NextBackoff(attempt) == {a \in 0..MaxAttempts : a < attempt}

\* the head of the loop: for backoffer.Attempt() > 0; return lastErr
WithRetry ==
  /\ wr.pc = "loop"
  /\ wr' = IF wr.attempt > 0 THEN [wr EXCEPT !.pc = "call"]
           ELSE [wr EXCEPT !.pc = "returned", !.ret = wr.lastErr]
  /\ UNCHANGED <<codecVars, storeVars, iterVars, mgrVars, callVars, connVars, restoreVars,
                 senderVars>>

\* err := retryableFunc(): nil is returned at once, an error is kept
RetryableFunc ==
  /\ wr.pc = "call"
  /\ \E err \in RetryErrs :
       wr' = IF err = "nil"
             THEN [wr EXCEPT !.pc = "returned", !.ret = "nil",
                             !.calls = Append(@, [err |-> err, attempt |-> wr.attempt])]
             ELSE [wr EXCEPT !.pc = "backoff", !.lastErr = err,
                             !.calls = Append(@, [err |-> err, attempt |-> wr.attempt])]
  /\ UNCHANGED <<codecVars, storeVars, iterVars, mgrVars, callVars, connVars, restoreVars,
                 senderVars>>

\* time.Sleep(backoffer.NextBackoff(err))
RetrySleep ==
  /\ wr.pc = "backoff"
  /\ \E a \in NextBackoff(wr.attempt) :
       wr' = [wr EXCEPT !.pc = "loop", !.attempt = a, !.sleeps = @ + 1]
  /\ UNCHANGED <<codecVars, storeVars, iterVars, mgrVars, callVars, connVars, restoreVars,
                 senderVars>>

RetryInit ==
  /\ CodecIdle
  /\ IterIdle
  /\ MgrIdle
  /\ CallIdle
  /\ ConnIdle
  /\ RestoreIdle
  /\ SenderIdle
  /\ \E a \in 0..MaxAttempts :
       wr = [pc |-> "loop", attempt |-> a, lastErr |-> "nil", calls |-> <<>>, sleeps |-> 0,
             ret |-> "none"]

RetryNext == WithRetry \/ RetryableFunc \/ RetrySleep

SpecRetry == RetryInit /\ [][RetryNext]_vars

\* C39: retryableFunc is called only with attempts remaining; a call that
\* returns nil is the last and WithRetry then returns nil; otherwise
\* WithRetry returns the error of the last call; it returns nil only if some
\* call returned nil.
C39_RetryReturnsLastError ==
  /\ wr.pc # "idle" => \A i \in DOMAIN wr.calls : wr.calls[i].attempt > 0
  /\ wr.pc # "idle" =>
       \A i \in DOMAIN wr.calls : wr.calls[i].err = "nil" => i = Len(wr.calls)
  /\ wr.pc = "returned" =>
       /\ (wr.calls # <<>> /\ wr.calls[Len(wr.calls)].err = "nil") => wr.ret = "nil"
       /\ (wr.calls # <<>> /\ wr.calls[Len(wr.calls)].err # "nil") =>
            wr.ret = wr.calls[Len(wr.calls)].err
       /\ wr.ret = "nil" => \E i \in DOMAIN wr.calls : wr.calls[i].err = "nil"

(***************************************************************************)
(* tikvSender: RestoreBatch, splitWorker, restoreWorker, Close.            *)
(***************************************************************************)
MaxSenderFaults == 1

SplitConcurrency == 1

\* the tables of the batches
SenderTables == {1, 2}

\* the tables of a set in the order of the slice that holds them
RECURSIVE TablesInOrder(_)
TablesInOrder(ts) ==
  IF ts = {} THEN <<>>
  ELSE LET t == CHOOSE x \in ts : \A y \in ts : x <= y
       IN  <<t>> \o TablesInOrder(ts \ {t})

\* what the batcher hands over, batch after batch: the tables a batch sends
\* and those of them that are blank after it, which no later batch sends
DrainPlans ==
  { << [send |-> {1}, blank |-> {1}] >>,
    << [send |-> {1}, blank |-> {}], [send |-> {1, 2}, blank |-> {1, 2}] >>,
    << [send |-> {1}, blank |-> {1}], [send |-> {2}, blank |-> {2}] >>,
    << [send |-> {1, 2}, blank |-> {1}], [send |-> {2}, blank |-> {2}] >> }

\* the callbacks of SplitRangesAndThen and RestoreFilesAndThen get an error
\* or nil; a cancelled context is an error
SenderFails == IF sender.ctxDone THEN {TRUE}
               ELSE IF sender.faults > 0 THEN {FALSE, TRUE} ELSE {FALSE}

SenderCost(fails) == IF fails /\ ~sender.ctxDone THEN 1 ELSE 0

\* mutant: Wait() does not wait
WaitReturns_AtOnce(n) == TRUE

\* sync.WaitGroup.Wait() returns when the counter is zero
WaitReturns(n) == n = 0

\* registerTableIsRestoring(ts): each table's WaitGroup, made if the map has
\* none, is raised by one; done() lowers these same WaitGroups
registerTableIsRestoring(ts) ==
  LET fresh == TablesInOrder({t \in ts : sender.tableWaiters[t] = 0})
      at(t) == IF sender.tableWaiters[t] # 0 THEN sender.tableWaiters[t]
               ELSE Len(sender.wgs) + (CHOOSE k \in DOMAIN fresh : fresh[k] = t)
      all   == sender.wgs \o [k \in DOMAIN fresh |-> 0]
  IN  [wgs |-> [k \in DOMAIN all |-> IF k \in {at(t) : t \in ts} THEN all[k] + 1 ELSE all[k]],
       tableWaiters |-> [t \in SenderTables |-> IF t \in ts THEN at(t)
                                                  ELSE sender.tableWaiters[t]],
       done |-> {at(t) : t \in ts}]

\* NewTiKVSender: the channels empty, wg at 2, both workers in their loops
SenderInit ==
  /\ CodecIdle
  /\ IterIdle
  /\ MgrIdle
  /\ CallIdle
  /\ ConnIdle
  /\ RestoreIdle
  /\ RetryIdle
  /\ batches = <<>>
  /\ \E f \in 0..MaxSenderFaults, plan \in DrainPlans :
       sender = [pc |-> "run", plan |-> plan, ctxDone |-> FALSE, faults |-> f,
                 inCh |-> <<>>, inClosed |-> FALSE, midCh |-> <<>>, midClosed |-> FALSE,
                 splitPc |-> "loop", splitCur |-> 0, restorePc |-> "loop", closePc |-> "none",
                 splitWorks |-> 0, restoreWorks |-> 0, wg |-> 2,
                 wgs |-> <<>>, tableWaiters |-> [t \in SenderTables |-> 0],
                 emitted |-> <<>>, errs |-> 0, outClosed |-> 0, crashed |-> "none"]

\* what no step of the sender touches
SenderFrame ==
  UNCHANGED <<codecVars, storeVars, iterVars, mgrVars, callVars, connVars, restoreVars,
              retryVars>>

\* a step of the sender is taken while the process is alive
SenderAlive == sender.pc = "run" /\ sender.crashed = "none"

\* RestoreBatch(ranges): b.inCh <- ranges
RestoreBatch ==
  /\ SenderAlive
  /\ ~sender.inClosed
  /\ Len(batches) < Len(sender.plan)
  /\ LET r == sender.plan[Len(batches) + 1]
     IN  batches' = Append(batches, [send |-> r.send, blank |-> r.blank, st |-> "in",
                                     done |-> {}, doneRun |-> FALSE, registered |-> FALSE,
                                     pending |-> <<>>, waitOn |-> 0])
  /\ sender' = [sender EXCEPT !.inCh = Append(@, Len(batches) + 1)]
  /\ SenderFrame

\* Close(): close(b.inCh), then b.wg.Wait()
SenderClose ==
  /\ SenderAlive
  /\ sender.closePc = "none"
  /\ sender' = [sender EXCEPT !.inClosed = TRUE, !.closePc = "waiting"]
  /\ UNCHANGED batches
  /\ SenderFrame

\* b.wg.Wait() of Close returns
SenderCloseReturn ==
  /\ SenderAlive
  /\ sender.closePc = "waiting"
  /\ WaitReturns(sender.wg)
  /\ sender' = [sender EXCEPT !.closePc = "returned"]
  /\ UNCHANGED batches
  /\ SenderFrame

\* the context of the sender is cancelled
SenderCancel ==
  /\ SenderAlive
  /\ ~sender.ctxDone
  /\ sender' = [sender EXCEPT !.ctxDone = TRUE]
  /\ UNCHANGED batches
  /\ SenderFrame

\* splitWorker, the select of its loop: the context is done, or a batch is
\* received (counted in splitWorks and registered, then handed to the
\* pool), or the channel is closed and empty
SplitWorkerLoop ==
  /\ SenderAlive
  /\ sender.splitPc = "loop"
  /\ \/ /\ sender.ctxDone
        /\ sender' = [sender EXCEPT !.splitPc = "wait"]
        /\ UNCHANGED batches
     \/ /\ sender.inCh # <<>>
        /\ LET b   == Head(sender.inCh)
               reg == registerTableIsRestoring(batches[b].send)
           IN  /\ sender' = [sender EXCEPT !.inCh = Tail(@), !.splitWorks = @ + 1,
                                           !.wgs = reg.wgs, !.tableWaiters = reg.tableWaiters,
                                           !.splitPc = "apply", !.splitCur = b]
               /\ batches' = [batches EXCEPT ![b].st = "apply", ![b].done = reg.done,
                                             ![b].registered = TRUE]
     \/ /\ sender.inCh = <<>> /\ sender.inClosed
        /\ sender' = [sender EXCEPT !.splitPc = "wait"]
        /\ UNCHANGED batches
  /\ SenderFrame

\* pool.Apply(fn): waits for a free worker of the pool, which then runs fn
SplitApply ==
  /\ SenderAlive
  /\ sender.splitPc = "apply"
  /\ Cardinality({i \in DOMAIN batches : batches[i].st = "split"}) < SplitConcurrency
  /\ batches' = [batches EXCEPT ![sender.splitCur].st = "split"]
  /\ sender' = [sender EXCEPT !.splitPc = "loop", !.splitCur = 0]
  /\ SenderFrame

\* the callback of SplitRangesAndThen for batch b: on an error EmitError and
\* return; else the batch is sent on and splitWorks.Done()
SplitCallback(b) ==
  /\ SenderAlive
  /\ batches[b].st = "split"
  /\ \E fails \in SenderFails :
       IF fails
       THEN /\ sender' = [sender EXCEPT !.errs = @ + 1, !.faults = @ - SenderCost(fails)]
            /\ batches' = [batches EXCEPT ![b].st = "splitErr"]
       ELSE IF sender.midClosed
       THEN /\ sender' = [sender EXCEPT !.crashed = "send on closed channel: mid"]
            /\ UNCHANGED batches
       ELSE /\ sender' = [sender EXCEPT !.midCh = Append(@, b), !.splitWorks = @ - 1]
            /\ batches' = [batches EXCEPT ![b].st = "mid"]
  /\ SenderFrame

\* splitWorker, its deferred function: splitWorks.Wait(), b.wg.Done(),
\* close(next)
SplitWorkerExit ==
  /\ SenderAlive
  /\ sender.splitPc = "wait"
  /\ WaitReturns(sender.splitWorks)
  /\ sender' = [sender EXCEPT !.splitPc = "exited", !.wg = @ - 1, !.midClosed = TRUE]
  /\ UNCHANGED batches
  /\ SenderFrame

\* restoreWorker, the select of its loop: the context is done, or a batch is
\* received (counted in restoreWorks, a goroutine started for it), or the
\* channel is closed and empty
RestoreWorkerLoop ==
  /\ SenderAlive
  /\ sender.restorePc = "loop"
  /\ \/ /\ sender.ctxDone
        /\ sender' = [sender EXCEPT !.restorePc = "wait"]
        /\ UNCHANGED batches
     \/ /\ sender.midCh # <<>>
        /\ sender' = [sender EXCEPT !.midCh = Tail(@), !.restoreWorks = @ + 1]
        /\ batches' = [batches EXCEPT ![Head(sender.midCh)].st = "restore"]
     \/ /\ sender.midCh = <<>> /\ sender.midClosed
        /\ sender' = [sender EXCEPT !.restorePc = "wait"]
        /\ UNCHANGED batches
  /\ SenderFrame

\* the callback of RestoreFilesAndThen for batch b, its first part: an error
\* is emitted, then r.done()
RestoreCallback(b) ==
  /\ SenderAlive
  /\ batches[b].st = "restore"
  /\ \E fails \in SenderFails :
       sender' = [sender EXCEPT !.errs = IF fails THEN @ + 1 ELSE @,
                                !.faults = @ - SenderCost(fails),
                                !.wgs = [k \in DOMAIN sender.wgs |->
                                           IF k \in batches[b].done THEN sender.wgs[k] - 1
                                           ELSE sender.wgs[k]]]
  /\ batches' = [batches EXCEPT ![b].st = "wait", ![b].doneRun = TRUE,
                                ![b].pending = TablesInOrder(batches[b].blank)]
  /\ SenderFrame

\* waitTablesDone(r.result.BlankTablesAfterSend): for each table,
\* LoadAndDelete its WaitGroup, panic if there is none, and Wait() on it
waitTablesDone(b) ==
  /\ SenderAlive
  /\ batches[b].st = "wait"
  /\ IF batches[b].waitOn # 0
     THEN /\ WaitReturns(sender.wgs[batches[b].waitOn])
          /\ batches' = [batches EXCEPT ![b].waitOn = 0]
          /\ UNCHANGED sender
     ELSE IF batches[b].pending = <<>>
     THEN /\ batches' = [batches EXCEPT ![b].st = "emit"]
          /\ UNCHANGED sender
     ELSE LET t == Head(batches[b].pending)
          IN  IF sender.tableWaiters[t] = 0
              THEN /\ sender' = [sender EXCEPT !.crashed = "bug! table done before register!"]
                   /\ UNCHANGED batches
              ELSE /\ sender' = [sender EXCEPT !.tableWaiters[t] = 0]
                   /\ batches' = [batches EXCEPT ![b].waitOn = sender.tableWaiters[t],
                                                 ![b].pending = Tail(@)]
  /\ SenderFrame

\* the batches that registered a table of these and whose done function has
\* not run
NotDone(ts) ==
  {i \in DOMAIN batches :
     batches[i].registered /\ ~batches[i].doneRun /\ batches[i].send \cap ts # {}}

\* b.sink.EmitTables(r.result.BlankTablesAfterSend...), restoreWorks.Done()
EmitTables(b) ==
  /\ SenderAlive
  /\ batches[b].st = "emit"
  /\ IF sender.outClosed > 0
     THEN /\ sender' = [sender EXCEPT !.crashed = "send on closed channel: out"]
          /\ UNCHANGED batches
     ELSE /\ sender' = [sender EXCEPT !.emitted =
                                         Append(@, [batch |-> b, tables |-> batches[b].blank,
                                                    notDone |-> NotDone(batches[b].blank)]),
                                      !.restoreWorks = @ - 1]
          /\ batches' = [batches EXCEPT ![b].st = "finished"]
  /\ SenderFrame

\* restoreWorker, its deferred function: restoreWorks.Wait(), b.wg.Done(),
\* b.sink.Close()
RestoreWorkerExit ==
  /\ SenderAlive
  /\ sender.restorePc = "wait"
  /\ WaitReturns(sender.restoreWorks)
  /\ sender' = [sender EXCEPT !.restorePc = "exited", !.wg = @ - 1, !.outClosed = @ + 1]
  /\ UNCHANGED batches
  /\ SenderFrame

\* the steps of the two workers, of their callbacks and of Close's wait
SenderProgram ==
  \/ SplitWorkerLoop
  \/ SplitApply
  \/ \E b \in DOMAIN batches : SplitCallback(b)
  \/ SplitWorkerExit
  \/ RestoreWorkerLoop
  \/ \E b \in DOMAIN batches : RestoreCallback(b)
  \/ \E b \in DOMAIN batches : waitTablesDone(b)
  \/ \E b \in DOMAIN batches : EmitTables(b)
  \/ RestoreWorkerExit
  \/ SenderCloseReturn

SenderNext ==
  \/ RestoreBatch
  \/ SenderClose
  \/ SenderCancel
  \/ SenderProgram

SpecSender == SenderInit /\ [][SenderNext]_vars

\* the workers and callbacks are goroutines the scheduler runs: a step that
\* stays possible is taken
SpecSenderLive == SenderInit /\ [][SenderNext]_vars /\ WF_vars(SenderProgram)

\* C34: when the tables that are blank after a batch are emitted, every
\* batch that registered one of them has run its done function.
C34_EmitAfterAllDone ==
  sender.pc = "run" =>
    \A i \in DOMAIN sender.emitted : sender.emitted[i].notDone = {}

\* a table sent by two batches, blank after the second, is emitted after
\* the restore of the second batch ended before that of the first
C34_Witness ==
  /\ sender.pc = "run"
  /\ Len(batches) = 2
  /\ batches[1].send \cap batches[2].blank # {}
  /\ \E i \in DOMAIN sender.emitted :
       sender.emitted[i].batch = 2 /\ sender.emitted[i].tables # {}
  /\ batches[1].st = "wait"

\* C36: once Close is called, and unless the context is cancelled, Close
\* returns, with both workers gone, the sink closed once, and every batch
\* that RestoreBatch accepted either emitted or reported by an error.
C36_CloseReturns ==
  (sender.pc = "run" /\ sender.closePc = "waiting" /\ ~sender.ctxDone)
    ~> (\/ sender.ctxDone
        \/ /\ sender.closePc = "returned"
           /\ sender.splitPc = "exited" /\ sender.restorePc = "exited"
           /\ sender.outClosed = 1
           /\ \A b \in DOMAIN batches : batches[b].st \in {"finished", "splitErr"})

\* C37: no step of the sender sends on the mid channel after splitWorker
\* closed it or on the output channel after sink.Close() closed it.
C37_NoSendOnClosed ==
  sender.pc = "run" =>
    /\ sender.crashed \notin {"send on closed channel: mid", "send on closed channel: out"}
    /\ sender.midClosed => \A b \in DOMAIN batches : batches[b].st \notin {"apply", "split"}
    /\ sender.outClosed <= 1

\* the context was cancelled with a batch in each stage, both channels are
\* closed, one batch was emitted and the other was left behind
C37_Witness ==
  /\ sender.pc = "run"
  /\ sender.ctxDone
  /\ sender.midClosed /\ sender.outClosed = 1
  /\ \E b \in DOMAIN batches : batches[b].st = "finished"
  /\ \E b \in DOMAIN batches : batches[b].st \in {"in", "mid"}

====
